---- MODULE Spec2Model ----
(***************************************************************************)
(* Verification model of ParisTrader/paristrader-terminal.                 *)
(*                                                                         *)
(* Part I   the dashboard orchestrator                                     *)
(*          (src/MarketDashboard/main_auto/main_auto.py):                  *)
(*          run_generation_pipeline, send_telegram_update,                 *)
(*          run_pipeline_with_retries, get_next_run_datetime, sleep_until, *)
(*          run_schedule_mode.                                             *)
(* Part II  the volume profile (src/VP/VP _backup_12Dec.py):               *)
(*          get_bin_size, plot_volume_profile.                             *)
(***************************************************************************)
EXTENDS Integers, Sequences, FiniteSets, TLC

VARIABLES
    \* ---- run_pipeline_with_retries / run_generation_pipeline ----
    caller,             \* who invoked the code under study: "main", "schedule", "direct", "none"
    pc,                 \* position inside the orchestrator call
    max_attempts,       \* parameter of run_pipeline_with_retries
    send_telegram,      \* parameter of run_pipeline_with_retries
    attempt,            \* loop variable of run_pipeline_with_retries
    last_exc,           \* last_exc of run_pipeline_with_retries ("None" or "Exception")
    result,             \* how run_pipeline_with_retries ended
    outputs,            \* attempt whose outputs dict is held / returned (0 = none)
    runs,               \* number of run_generation_pipeline invocations of this trigger
    failures,           \* attempts of this trigger that ended in the `except Exception` handler
    calls,              \* generators invoked by the current pipeline run, in order
    warned,             \* steps of the current run that printed a [WARN]
    raised,             \* step whose exception left the current pipeline run ("None" if none)
    cbbc_html_path,     \* "None" or "html"
    tr_i,               \* index into Index_day_range.TICKERS
    true_range_data,    \* len(true_range_data)
    tt_i,               \* index into Index_Tradingtime.TARGETS
    trading_time_data,  \* len(trading_time_data)
    dashboards,         \* number of dashboard files written by the current run
    \* ---- send_telegram_update ----
    raise_on_error,     \* parameter of send_telegram_update
    tg_attempt,         \* loop variable of send_telegram_update
    tg_posts,           \* urlopen calls made by the current send_telegram_update call
    tg_last_exc,        \* last_exc of send_telegram_update
    tg_result,          \* "none", "True", "False", "raised", "KeyboardInterrupt"
    tg_raised,          \* the exception send_telegram_update raised ("None" if none)
    \* ---- run_schedule_mode ----
    sched_pc,           \* "off", "loop", "sleep", "run", "exit"
    now,                \* current_time(), minutes since Monday 00:00 HKT
    next_run,           \* next_run of run_schedule_mode (minutes), -1 = none
    exit_reason,        \* why run_schedule_mode / main ended
    \* ---- plot_volume_profile (peak lists are sets of bin indices) ----
    vp_pc,              \* position inside plot_volume_profile ("off" outside it)
    stages,             \* peak stages executed so far, in order
    name,               \* parameter name
    gc_reference,       \* parameter gc_reference
    profile_vol,        \* histogram: volume of bin i, i = 0 .. n-1
    current_price,      \* last Close, in quarters of a bin above p_min
    total_vol,          \* profile_vol.sum()
    poc_idx,            \* np.argmax(profile_vol)
    candidate_peaks,    \* find_local_maxima(...)
    pending,            \* candidates_sorted not yet visited by dedup_within_window
    kept,               \* kept of dedup_within_window
    deduped_peaks,
    filtered_peaks,
    initial_peaks_up,
    initial_peaks_dn,
    spot_idx,
    need_rescore,
    rescored_up,
    rescored_dn,
    peaks_up,
    peaks_dn,
    before_window_clip, \* final_peaks before the display window clip
    final_peaks,        \* final_peaks as returned
    low_idx,
    high_idx,
    current_vol,
    plot_result,        \* the dict plot_volume_profile returns
    first_call,         \* gc_reference and result of an earlier call on the same data
    \* ---- process_ticker ----
    pt_pc,              \* position inside process_ticker ("off" outside it)
    ticker_symbol,      \* parameter ticker_symbol
    N_DAYS,             \* parameter N_DAYS
    start_weekday,      \* start_date.weekday(), Monday = 0
    feed,               \* what the data source holds: the days that have 1-minute rows
    inclusive_end,      \* whether history(start, end) also returns the rows of day `end`
    pt_current,         \* loop variable current, in days after start_date
    all_data,           \* index of all_data: a sequence of timestamps <<day, minute>>
    selected_trading_days,
    pt_result,          \* what process_ticker returned
    \* ---- main (mode 2) and send_to_topic_via_http ----
    m2_pc,              \* position inside main ("off" outside it)
    mode,               \* mode of main
    utc_slot,           \* datetime.now(timezone.utc): 7200-second slots since Monday 00:00 UTC
    iter_weekday,       \* utc_now.weekday() of the current loop iteration (-1 = not read)
    gd_result,          \* what generate_dashboard did: "unset", "None", "dict", "Exception"
    symbol_payloads,    \* len(result['symbol_payloads'])
    slept,              \* seconds of time.sleep(7200) in the current loop iteration
    http_attempt,       \* loop variable attempt of send_to_topic_via_http
    http_posts,         \* requests.post calls of the current loop iteration
    http_last,          \* outcome of the last requests.post: "none", "200", "non200", "Exception"
    http_result,        \* "none", "True", "False", "raised"
    \* ---- app.py ----
    app_pc,             \* position inside one script run of app.py ("off" outside it)
    authentication_status, \* st.session_state["authentication_status"]: "unset", "True", "False"
    user_email,         \* st.session_state["user_email"] ("unset" if absent)
    target_page,        \* target_page of the current script run
    email_input,        \* the login form's fields as submitted
    password_input,
    submit_button,      \* st.form_submit_button(...) of the current script run
    secrets,            \* "set" or "missing" (st.secrets raises FileNotFoundError)
    form_shown,         \* the previous script run of the session ended on the login form
    rendered,           \* the page whose content the current script run rendered ("none")
    \* ---- app.py, get_latest_file_content ----
    glfc_pc,            \* "off", "call", "done"
    platform,           \* "Windows" or "Unix"
    folder_exists,      \* os.path.exists(folder_path)
    dir_files,          \* names of the files in the folder
    birthtime,          \* when each file was created
    changetime,         \* when each file's inode was last changed
    unreadable,         \* files whose open/read raises
    pattern,            \* parameter pattern
    glfc_result,        \* what get_latest_file_content returned
    \* ---- OtmPremium.compute_metrics_and_qc ----
    otm_pc,             \* position inside compute_metrics_and_qc ("off" outside it)
    columns,            \* the optional columns the input CSV has
    row,                \* one row of the input CSV
    df,                 \* the columns compute_metrics_and_qc computed for that row
    df_filtered         \* the rows of df_filtered

pipeVars == <<caller, pc, max_attempts, send_telegram, attempt, last_exc, result,
              outputs, runs, failures>>
genVars == <<calls, warned, raised, cbbc_html_path, tr_i, true_range_data, tt_i,
             trading_time_data, dashboards>>
tgVars == <<raise_on_error, tg_attempt, tg_posts, tg_last_exc, tg_result, tg_raised>>
schedVars == <<sched_pc, now, next_run, exit_reason>>

vpInput == <<name, gc_reference, profile_vol, current_price, total_vol, poc_idx>>
vpPeaks == <<candidate_peaks, pending, kept, deduped_peaks, filtered_peaks,
             initial_peaks_up, initial_peaks_dn, spot_idx, need_rescore,
             rescored_up, rescored_dn, peaks_up, peaks_dn>>
vpArea == <<before_window_clip, final_peaks, low_idx, high_idx, current_vol>>
vpVars == <<vp_pc, stages, vpInput, vpPeaks, vpArea, plot_result, first_call>>

ptVars == <<pt_pc, ticker_symbol, N_DAYS, start_weekday, feed,
            inclusive_end, pt_current, all_data, selected_trading_days, pt_result>>
m2Vars == <<m2_pc, mode, utc_slot, iter_weekday, gd_result, symbol_payloads, slept,
            http_attempt, http_posts, http_last, http_result>>
appVars == <<app_pc, authentication_status, user_email, target_page, email_input,
             password_input, submit_button, secrets, form_shown, rendered,
             glfc_pc, platform, folder_exists, dir_files, birthtime, changetime,
             unreadable, pattern, glfc_result>>
otmVars == <<otm_pc, columns, row, df, df_filtered>>
extVars == <<ptVars, m2Vars, appVars, otmVars>>

vars == <<pipeVars, genVars, tgVars, schedVars, vpVars, extVars>>

----------------------------------------------------------------------------
(* Program constants of main_auto.py *)

TELEGRAM_MAX_SEND_RETRIES == 5
DEFAULT_MAX_ATTEMPTS == 10
NUM_TICKERS == 4
NUM_TARGETS == 3

(* Bounds of the model *)
MaxAttemptsParam == 3
ReferenceWeeks == 2

REPORT_ORDER_NQ_FIRST == <<"etf_sector_heatmap", "market_breadth_nq", "market_breadth_hsi",
                           "spx_vix", "cbbc", "true_range", "trading_time">>

\* The report generators in the order run_generation_pipeline calls them.
REPORT_ORDER == <<"etf_sector_heatmap", "market_breadth_hsi", "market_breadth_nq",
                  "spx_vix", "cbbc", "true_range", "trading_time">>

Max(a, b) == IF a >= b THEN a ELSE b
Min(a, b) == IF a <= b THEN a ELSE b

\* attempts = max(1, max_attempts)
AttemptsUnclamped == max_attempts

Attempts == Max(1, max_attempts)

----------------------------------------------------------------------------
(* Idle values of each group of variables *)

GenReset ==
    /\ calls = <<>>
    /\ warned = {}
    /\ raised = "None"
    /\ cbbc_html_path = "None"
    /\ tr_i = 0
    /\ true_range_data = 0
    /\ tt_i = 0
    /\ trading_time_data = 0
    /\ dashboards = 0

GenReset_next ==
    /\ calls' = <<>>
    /\ warned' = {}
    /\ raised' = "None"
    /\ cbbc_html_path' = "None"
    /\ tr_i' = 0
    /\ true_range_data' = 0
    /\ tt_i' = 0
    /\ trading_time_data' = 0
    /\ dashboards' = 0

TgIdle ==
    /\ raise_on_error = TRUE
    /\ tg_attempt = 0
    /\ tg_posts = 0
    /\ tg_last_exc = "None"
    /\ tg_result = "none"
    /\ tg_raised = "None"

TgIdle_next ==
    /\ raise_on_error' = TRUE
    /\ tg_attempt' = 0
    /\ tg_posts' = 0
    /\ tg_last_exc' = "None"
    /\ tg_result' = "none"
    /\ tg_raised' = "None"

SchedOff ==
    /\ sched_pc = "off"
    /\ now = 0
    /\ next_run = -1
    /\ exit_reason = "none"

\* gc_reference=None; the fields of the dict built at generate_dashboard otherwise
GC_REFERENCE_NONE == [given |-> FALSE, price |-> 0, bin_size |-> 0, display_range |-> 0]

\* no value returned (yet)
NO_RESULT ==
    [returned |-> FALSE, bin_size |-> 0, scroll_range |-> [lower |-> 0, upper |-> 0],
     initial_range |-> [lower |-> 0, upper |-> 0], display_bin_count |-> 0,
     final_peaks |-> {}, window_bins |-> 0, initial_offset |-> 0, max_offset |-> 0,
     val_price |-> 0, vah_price |-> 0, rescore_triggered |-> FALSE]

NO_CALL == [gc_reference |-> GC_REFERENCE_NONE, result |-> NO_RESULT]

\* the locals of plot_volume_profile before its first statement
VPLocalsReset ==
    /\ stages = <<>>
    /\ total_vol = 0
    /\ poc_idx = 0
    /\ candidate_peaks = {}
    /\ pending = {}
    /\ kept = {}
    /\ deduped_peaks = {}
    /\ filtered_peaks = {}
    /\ initial_peaks_up = {}
    /\ initial_peaks_dn = {}
    /\ spot_idx = 0
    /\ need_rescore = FALSE
    /\ rescored_up = {}
    /\ rescored_dn = {}
    /\ peaks_up = {}
    /\ peaks_dn = {}
    /\ before_window_clip = {}
    /\ final_peaks = {}
    /\ low_idx = 0
    /\ high_idx = 0
    /\ current_vol = 0
    /\ plot_result = NO_RESULT

VPIdle ==
    /\ vp_pc = "off"
    /\ name = "None"
    /\ gc_reference = GC_REFERENCE_NONE
    /\ profile_vol = [i \in 0..0 |-> 0]
    /\ current_price = 0
    /\ VPLocalsReset
    /\ first_call = NO_CALL

PT_NOT_RETURNED == [returned |-> "no", data_20d |-> <<>>, name |-> "None", data_20d_dates |-> <<>>]

PtIdle ==
    /\ pt_pc = "off"
    /\ ticker_symbol = "None"
    /\ N_DAYS = 0
    /\ start_weekday = 0
    /\ feed = {}
    /\ inclusive_end = FALSE
    /\ pt_current = 0
    /\ all_data = <<>>
    /\ selected_trading_days = <<>>
    /\ pt_result = PT_NOT_RETURNED

\* no send_to_topic_via_http call yet in this loop iteration
HttpIdle ==
    /\ http_attempt = 0
    /\ http_posts = 0
    /\ http_last = "none"
    /\ http_result = "none"

M2Idle ==
    /\ m2_pc = "off"
    /\ mode = 0
    /\ utc_slot = 0
    /\ iter_weekday = -1
    /\ gd_result = "unset"
    /\ symbol_payloads = 0
    /\ slept = 0
    /\ HttpIdle

GLFC_NOT_RETURNED == [returned |-> FALSE, first |-> "unset", second |-> "unset", raised |-> FALSE]

LatestFileIdle ==
    /\ glfc_pc = "off"
    /\ platform = "Unix"
    /\ folder_exists = FALSE
    /\ dir_files = {}
    /\ birthtime = <<>>
    /\ changetime = <<>>
    /\ unreadable = {}
    /\ pattern = "*.html"
    /\ glfc_result = GLFC_NOT_RETURNED

AppIdle ==
    /\ app_pc = "off"
    /\ authentication_status = "unset"
    /\ user_email = "unset"
    /\ target_page = "none"
    /\ email_input = ""
    /\ password_input = ""
    /\ submit_button = FALSE
    /\ secrets = "set"
    /\ form_shown = FALSE
    /\ rendered = "none"
    /\ LatestFileIdle

\* a missing value (NaN, NaT) and a number
NaN == [nan |-> TRUE, v |-> 0]
Num(x) == [nan |-> FALSE, v |-> x]

DF_NOT_COMPUTED ==
    [dte |-> NaN, option_premium |-> NaN, premium_threshold |-> NaN,
     moneyness |-> "", abnormal_volume |-> FALSE]

ROW_NOT_READ ==
    [volume |-> NaN, open_interest |-> NaN, last_price |-> NaN, option_premium |-> NaN,
     premium_threshold |-> NaN, days_to_expiration |-> NaN, date_diff |-> NaN,
     moneyness |-> "", contract_type |-> "", strike |-> NaN, ul_price |-> NaN]

OtmIdle ==
    /\ otm_pc = "off"
    /\ columns = {}
    /\ row = ROW_NOT_READ
    /\ df = DF_NOT_COMPUTED
    /\ df_filtered = <<>>

ExtIdle == PtIdle /\ M2Idle /\ AppIdle /\ OtmIdle

----------------------------------------------------------------------------
(* run_pipeline_with_retries: the handlers around one attempt *)

\* except Exception: last_exc = exc; [WARN]; sleep before the next attempt, or
\* fall out of the for loop and raise RuntimeError after the last one.
AttemptFailed ==
    /\ last_exc' = "Exception"
    /\ IF attempt < Attempts
          THEN pc' = "retry_sleep" /\ result' = result
          ELSE pc' = "done" /\ result' = "RuntimeError"
    /\ failures' = failures + 1
    /\ UNCHANGED <<caller, max_attempts, send_telegram, attempt, outputs, runs>>

\* except KeyboardInterrupt: raise
Interrupted ==
    /\ pc' = "done"
    /\ result' = "KeyboardInterrupt"
    /\ UNCHANGED <<caller, max_attempts, send_telegram, attempt, last_exc, outputs, runs, failures>>

\* return outputs
AttemptSucceeded ==
    /\ pc' = "done"
    /\ result' = "returned"
    /\ UNCHANGED <<caller, max_attempts, send_telegram, attempt, last_exc, outputs, runs, failures>>

\* for attempt in range(1, attempts + 1): ... run_generation_pipeline(run_time=run_time)
StartAttempt ==
    /\ attempt' = attempt + 1
    /\ runs' = runs + 1
    /\ pc' = REPORT_ORDER[1]
    /\ GenReset_next
    /\ TgIdle_next
    /\ UNCHANGED <<caller, max_attempts, send_telegram, last_exc, result, outputs, failures>>

\* Entry of run_pipeline_with_retries: first iteration of the for loop.
\* When range(1, attempts + 1) is empty the loop body never runs and the RuntimeError
\* after the loop is raised at once.
BeginTrigger ==
    /\ pc = "call"
    /\ IF 1 <= Attempts
          THEN StartAttempt
          ELSE /\ pc' = "done"
               /\ result' = "RuntimeError"
               /\ UNCHANGED <<caller, max_attempts, send_telegram, attempt, last_exc,
                              outputs, runs, failures>>
               /\ UNCHANGED <<genVars, tgVars>>
    /\ UNCHANGED <<schedVars, vpVars, extVars>>

\* time.sleep(retry_delay_seconds) inside the except handler, then the next iteration.
RetrySleep ==
    /\ pc = "retry_sleep"
    /\ \/ StartAttempt
       \/ Interrupted /\ UNCHANGED <<genVars, tgVars>>
    /\ UNCHANGED <<schedVars, vpVars, extVars>>

----------------------------------------------------------------------------
(* run_generation_pipeline *)

Outcomes == {"ok", "Exception", "KeyboardInterrupt"}

\* A generator called outside any try block: ETF heatmap, HSI breadth, NQ breadth, SPX/VIX.
Unguarded(step, nextpc) ==
    /\ pc = step
    /\ calls' = Append(calls, step)
    /\ \E out \in Outcomes :
          CASE out = "ok" ->
                  /\ pc' = nextpc
                  /\ raised' = raised
                  /\ UNCHANGED <<caller, max_attempts, send_telegram, attempt, last_exc,
                                 result, outputs, runs, failures>>
            [] out = "Exception" ->
                  /\ raised' = step
                  /\ AttemptFailed
            [] out = "KeyboardInterrupt" ->
                  /\ raised' = raised
                  /\ Interrupted
    /\ UNCHANGED <<warned, cbbc_html_path, tr_i, true_range_data, tt_i,
                   trading_time_data, dashboards>>
    /\ UNCHANGED <<tgVars, schedVars, vpVars, extVars>>

ETFSectorHeatmap == Unguarded(REPORT_ORDER[1], REPORT_ORDER[2])
MarketBreadthHSI == Unguarded(REPORT_ORDER[2], REPORT_ORDER[3])
MarketBreadthNQ == Unguarded(REPORT_ORDER[3], REPORT_ORDER[4])
SpxVix == Unguarded(REPORT_ORDER[4], REPORT_ORDER[5])

\* except Exception as exc: print("[WARN] Failed to generate or locate CBBC HTML") --
\* the handler of the CBBC step, after which run_generation_pipeline goes on.
CBBCExceptUncaught ==
    /\ cbbc_html_path' = "None"
    /\ warned' = warned
    /\ raised' = REPORT_ORDER[5]
    /\ AttemptFailed

CBBCExcept ==
    /\ cbbc_html_path' = "None"
    /\ warned' = warned \cup {REPORT_ORDER[5]}
    /\ raised' = raised
    /\ pc' = REPORT_ORDER[6]
    /\ UNCHANGED <<caller, max_attempts, send_telegram, attempt, last_exc,
                   result, outputs, runs, failures>>

\* try: CBBC.main(); newest HSI_CBBC_Ladder_*.html ... except Exception: [WARN]
CBBCLadder ==
    /\ pc = REPORT_ORDER[5]
    /\ calls' = Append(calls, REPORT_ORDER[5])
    /\ \E out \in {"html", "nohtml", "Exception", "KeyboardInterrupt"} :
          CASE out = "html" ->
                  /\ cbbc_html_path' = "html"
                  /\ UNCHANGED <<warned, raised>>
                  /\ pc' = REPORT_ORDER[6]
                  /\ UNCHANGED <<caller, max_attempts, send_telegram, attempt, last_exc,
                                 result, outputs, runs, failures>>
            [] out = "nohtml" ->
                  /\ cbbc_html_path' = "None"
                  /\ UNCHANGED <<warned, raised>>
                  /\ pc' = REPORT_ORDER[6]
                  /\ UNCHANGED <<caller, max_attempts, send_telegram, attempt, last_exc,
                                 result, outputs, runs, failures>>
            [] out = "Exception" -> CBBCExcept
            [] out = "KeyboardInterrupt" ->
                  /\ UNCHANGED <<cbbc_html_path, warned, raised>>
                  /\ Interrupted
    /\ UNCHANGED <<tr_i, true_range_data, tt_i, trading_time_data, dashboards>>
    /\ UNCHANGED <<tgVars, schedVars, vpVars, extVars>>

\* for ticker, name in Index_day_range.TICKERS.items():
\*     try: result = generate_and_send_chart(...); if result: append
\*     except Exception: [WARN]
TrueRangeTicker ==
    /\ pc = REPORT_ORDER[6]
    /\ tr_i < NUM_TICKERS
    /\ calls' = IF tr_i = 0 THEN Append(calls, REPORT_ORDER[6]) ELSE calls
    /\ \E out \in {"result", "none", "Exception", "KeyboardInterrupt"} :
          IF out = "KeyboardInterrupt"
             THEN /\ UNCHANGED <<tr_i, true_range_data, warned>>
                  /\ Interrupted
             ELSE /\ tr_i' = tr_i + 1
                  /\ true_range_data' = IF out = "result" THEN true_range_data + 1
                                                          ELSE true_range_data
                  /\ warned' = IF out = "Exception" THEN warned \cup {REPORT_ORDER[6]}
                                                    ELSE warned
                  /\ pc' = IF tr_i + 1 = NUM_TICKERS THEN REPORT_ORDER[7] ELSE pc
                  /\ UNCHANGED <<caller, max_attempts, send_telegram, attempt, last_exc,
                                 result, outputs, runs, failures>>
    /\ UNCHANGED <<raised, cbbc_html_path, tt_i, trading_time_data, dashboards>>
    /\ UNCHANGED <<tgVars, schedVars, vpVars, extVars>>

\* for target in Index_Tradingtime.TARGETS:
\*     try: plot_intraday_zones(target, mode='mode1', html_sections=trading_time_data)
\*     except Exception: [WARN]
TradingTimeTarget ==
    /\ pc = REPORT_ORDER[7]
    /\ tt_i < NUM_TARGETS
    /\ calls' = IF tt_i = 0 THEN Append(calls, REPORT_ORDER[7]) ELSE calls
    /\ \E out \in {"section", "none", "Exception", "KeyboardInterrupt"} :
          IF out = "KeyboardInterrupt"
             THEN /\ UNCHANGED <<tt_i, trading_time_data, warned>>
                  /\ Interrupted
             ELSE /\ tt_i' = tt_i + 1
                  /\ trading_time_data' = IF out = "section" THEN trading_time_data + 1
                                                             ELSE trading_time_data
                  /\ warned' = IF out = "Exception" THEN warned \cup {REPORT_ORDER[7]}
                                                    ELSE warned
                  /\ pc' = IF tt_i + 1 = NUM_TARGETS THEN "build_dashboard_html" ELSE pc
                  /\ UNCHANGED <<caller, max_attempts, send_telegram, attempt, last_exc,
                                 result, outputs, runs, failures>>
    /\ UNCHANGED <<raised, cbbc_html_path, tr_i, true_range_data, dashboards>>
    /\ UNCHANGED <<tgVars, schedVars, vpVars, extVars>>

\* dashboard_path = build_dashboard_html(...); return {...}
\* then, back in run_pipeline_with_retries: if send_telegram: send_telegram_update(...)
BuildDashboard ==
    /\ pc = "build_dashboard_html"
    /\ calls' = Append(calls, "build_dashboard_html")
    /\ \E out \in Outcomes :
          CASE out = "ok" ->
                  /\ dashboards' = dashboards + 1
                  /\ outputs' = attempt
                  /\ raised' = raised
                  /\ IF send_telegram
                        THEN /\ pc' = "send_telegram_update"
                             /\ result' = result
                        ELSE /\ pc' = "done"
                             /\ result' = "returned"
                  /\ UNCHANGED <<caller, max_attempts, send_telegram, attempt, last_exc, runs, failures>>
            [] out = "Exception" ->
                  /\ dashboards' = dashboards
                  /\ raised' = "build_dashboard_html"
                  /\ AttemptFailed
            [] out = "KeyboardInterrupt" ->
                  /\ dashboards' = dashboards
                  /\ raised' = raised
                  /\ Interrupted
    \* the locals of run_generation_pipeline end with the call
    /\ cbbc_html_path' = "None"
    /\ tr_i' = 0
    /\ true_range_data' = 0
    /\ tt_i' = 0
    /\ trading_time_data' = 0
    /\ UNCHANGED warned
    \* locals of a fresh send_telegram_update call
    /\ raise_on_error' = TRUE
    /\ tg_attempt' = 0
    /\ tg_posts' = 0
    /\ tg_last_exc' = "None"
    /\ tg_result' = "none"
    /\ tg_raised' = "None"
    /\ UNCHANGED <<schedVars, vpVars, extVars>>

----------------------------------------------------------------------------
(* send_telegram_update *)

\* How a finished send_telegram_update call continues in its caller.
\* Called directly, the call is the whole operation.  Inside run_pipeline_with_retries
\* a return (True or False) completes the attempt and an exception fails it.
TelegramReturns(res, exc) ==
    /\ tg_result' = res
    /\ tg_raised' = exc
    /\ IF caller = "direct"
          THEN /\ pc' = "done"
               /\ UNCHANGED <<caller, max_attempts, send_telegram, attempt, last_exc,
                              result, outputs, runs, failures, raised>>
          ELSE CASE res \in {"True", "False"} ->
                       /\ AttemptSucceeded
                       /\ raised' = raised
                 [] res = "raised" ->
                       /\ AttemptFailed
                       /\ raised' = "send_telegram_update"
                 [] res = "KeyboardInterrupt" ->
                       /\ Interrupted
                       /\ raised' = raised

\* asset_path.read_bytes(), build_multipart_payload(...): everything before the for loop.
TelegramPrepare ==
    /\ pc = "send_telegram_update"
    /\ tg_attempt = 0
    /\ \E out \in Outcomes :
          CASE out = "ok" ->
                  /\ tg_attempt' = 1
                  /\ UNCHANGED <<pipeVars, raised, tg_result, tg_raised>>
            [] out = "Exception" ->
                  /\ tg_attempt' = tg_attempt
                  /\ TelegramReturns("raised", "OSError")
            [] out = "KeyboardInterrupt" ->
                  /\ tg_attempt' = tg_attempt
                  /\ TelegramReturns("KeyboardInterrupt", "None")
    /\ UNCHANGED <<raise_on_error, tg_posts, tg_last_exc>>
    /\ UNCHANGED <<calls, warned, cbbc_html_path, tr_i, true_range_data, tt_i,
                   trading_time_data, dashboards>>
    /\ UNCHANGED <<schedVars, vpVars, extVars>>

TelegramGiveUpSwallow(exc) == TelegramReturns("False", "None")

\* The end of the for loop: if raise_on_error and last_exc is not None: raise last_exc
\* return False
TelegramGiveUp(exc) ==
    IF raise_on_error /\ exc # "None"
       THEN TelegramReturns("raised", exc)
       ELSE TelegramReturns("False", "None")

\* One iteration of `for attempt in range(1, TELEGRAM_MAX_SEND_RETRIES + 1)`:
\* urlopen(request, timeout=60), the two except clauses, and the test before time.sleep(2).
TelegramPost ==
    /\ pc = "send_telegram_update"
    /\ tg_attempt >= 1
    /\ tg_attempt <= TELEGRAM_MAX_SEND_RETRIES
    /\ tg_posts' = tg_posts + 1
    /\ \E out \in {"ok", "URLError", "Exception", "KeyboardInterrupt"} :
          CASE out = "ok" ->
                  /\ TelegramReturns("True", "None")
                  /\ UNCHANGED <<tg_attempt, tg_last_exc>>
            [] out \in {"URLError", "Exception"} ->
                  /\ tg_last_exc' = out
                  /\ IF tg_attempt < TELEGRAM_MAX_SEND_RETRIES
                        THEN /\ pc' = "telegram_sleep"
                             /\ tg_attempt' = tg_attempt
                             /\ UNCHANGED <<caller, max_attempts, send_telegram, attempt,
                                            last_exc, result, outputs, runs, failures, raised,
                                            tg_result, tg_raised>>
                        ELSE /\ tg_attempt' = tg_attempt
                             /\ TelegramGiveUp(out)
            [] out = "KeyboardInterrupt" ->
                  /\ TelegramReturns("KeyboardInterrupt", "None")
                  /\ UNCHANGED <<tg_attempt, tg_last_exc>>
    /\ UNCHANGED raise_on_error
    /\ UNCHANGED <<calls, warned, cbbc_html_path, tr_i, true_range_data, tt_i,
                   trading_time_data, dashboards>>
    /\ UNCHANGED <<schedVars, vpVars, extVars>>

\* time.sleep(2) between two send attempts, then the next iteration.
TelegramSleep ==
    /\ pc = "telegram_sleep"
    /\ \/ /\ pc' = "send_telegram_update"
          /\ tg_attempt' = tg_attempt + 1
          /\ UNCHANGED <<caller, max_attempts, send_telegram, attempt, last_exc, result,
                         outputs, runs, failures, raised, tg_result, tg_raised>>
       \/ /\ tg_attempt' = tg_attempt
          /\ TelegramReturns("KeyboardInterrupt", "None")
    /\ UNCHANGED <<raise_on_error, tg_posts, tg_last_exc>>
    /\ UNCHANGED <<calls, warned, cbbc_html_path, tr_i, true_range_data, tt_i,
                   trading_time_data, dashboards>>
    /\ UNCHANGED <<schedVars, vpVars, extVars>>

----------------------------------------------------------------------------
(* The orchestrator called once: run_pipeline_with_retries with parameters drawn  *)
(* from bounded sets, or send_telegram_update called on its own.                  *)

InitPipeline ==
    /\ caller \in {"main", "direct"}
    /\ IF caller = "main"
          THEN /\ pc = "call"
               /\ max_attempts \in 0..MaxAttemptsParam
               /\ send_telegram \in BOOLEAN
               /\ raise_on_error = TRUE
          ELSE /\ pc = "send_telegram_update"
               /\ max_attempts = 1
               /\ send_telegram = TRUE
               /\ raise_on_error \in BOOLEAN
    /\ attempt = 0
    /\ last_exc = "None"
    /\ result = "pending"
    /\ outputs = 0
    /\ runs = 0
    /\ failures = 0
    /\ GenReset
    /\ tg_attempt = 0
    /\ tg_posts = 0
    /\ tg_last_exc = "None"
    /\ tg_result = "none"
    /\ tg_raised = "None"
    /\ SchedOff
    /\ VPIdle
    /\ ExtIdle

NextPipeline ==
    \/ BeginTrigger
    \/ RetrySleep
    \/ ETFSectorHeatmap
    \/ MarketBreadthHSI
    \/ MarketBreadthNQ
    \/ SpxVix
    \/ CBBCLadder
    \/ TrueRangeTicker
    \/ TradingTimeTarget
    \/ BuildDashboard
    \/ TelegramPrepare
    \/ TelegramPost
    \/ TelegramSleep

SpecPipeline == InitPipeline /\ [][NextPipeline]_vars

----------------------------------------------------------------------------
(* get_next_run_datetime.  Datetimes are minutes since a Monday 00:00 HKT;  *)
(* Hong Kong has no DST, so every day has 24 * 60 minutes.                  *)

MINUTES_PER_DAY == 24 * 60
MINUTES_PER_WEEK == 7 * MINUTES_PER_DAY

\* ACTIVE_WEEKDAYS = {1, 2, 3, 4, 5, 6}
ACTIVE_WEEKDAYS == {1, 2, 3, 4, 5, 6}

\* _build_run_times(): dt_time(9, 0), dt_time(22, 30), dt_time(23, 30)
RUN_TIMES == <<9 * 60 + 0, 22 * 60 + 30, 23 * 60 + 30>>

\* date.isoweekday() of the day with number `date` (day 0 is a Monday)
IsoWeekday(date) == (date % 7) + 1

\* datetime.date() of a datetime
DateOf(dt) == dt \div MINUTES_PER_DAY

RECURSIVE NextRunFromStrict(_, _, _)
NextRunFromStrict(current, day_delta, k) ==
    IF day_delta >= 8
       THEN -1
       ELSE LET candidate_date == DateOf(current) + day_delta
            IN  IF IsoWeekday(candidate_date) \notin ACTIVE_WEEKDAYS
                   THEN NextRunFromStrict(current, day_delta + 1, 1)
                   ELSE IF k > Len(RUN_TIMES)
                           THEN NextRunFromStrict(current, day_delta + 1, 1)
                           ELSE LET candidate_dt ==
                                        candidate_date * MINUTES_PER_DAY + RUN_TIMES[k]
                                IN  IF candidate_dt > current
                                       THEN candidate_dt
                                       ELSE NextRunFromStrict(current, day_delta, k + 1)

\* The two nested loops of get_next_run_datetime, resumed at (day_delta, k);
\* -1 stands for the RuntimeError raised after the loops.
RECURSIVE NextRunFrom(_, _, _)
NextRunFrom(current, day_delta, k) ==
    IF day_delta >= 8
       THEN -1
       ELSE LET candidate_date == DateOf(current) + day_delta
            IN  IF IsoWeekday(candidate_date) \notin ACTIVE_WEEKDAYS
                   THEN NextRunFrom(current, day_delta + 1, 1)
                   ELSE IF k > Len(RUN_TIMES)
                           THEN NextRunFrom(current, day_delta + 1, 1)
                           ELSE LET candidate_dt ==
                                        candidate_date * MINUTES_PER_DAY + RUN_TIMES[k]
                                IN  IF candidate_dt >= current
                                       THEN candidate_dt
                                       ELSE NextRunFrom(current, day_delta, k + 1)

get_next_run_datetime(current) == NextRunFrom(current, 0, 1)

\* Everything but the scheduler's clock is idle while get_next_run_datetime is studied.
PipeIdle ==
    /\ caller = "none"
    /\ pc = "idle"
    /\ max_attempts = DEFAULT_MAX_ATTEMPTS
    /\ send_telegram = TRUE
    /\ attempt = 0
    /\ last_exc = "None"
    /\ result = "pending"
    /\ outputs = 0
    /\ runs = 0
    /\ failures = 0

PipeIdle_next ==
    /\ caller' = "none"
    /\ pc' = "idle"
    /\ max_attempts' = DEFAULT_MAX_ATTEMPTS
    /\ send_telegram' = TRUE
    /\ attempt' = 0
    /\ last_exc' = "None"
    /\ result' = "pending"
    /\ outputs' = 0
    /\ runs' = 0
    /\ failures' = 0

\* get_next_run_datetime applied to every reference time of two weeks.
InitNextRun ==
    /\ PipeIdle
    /\ GenReset
    /\ TgIdle
    /\ sched_pc = "call"
    /\ now \in 0..(ReferenceWeeks * MINUTES_PER_WEEK - 1)
    /\ next_run = -1
    /\ exit_reason = "none"
    /\ VPIdle
    /\ ExtIdle

NextRunCall ==
    /\ sched_pc = "call"
    /\ next_run' = get_next_run_datetime(now)
    /\ sched_pc' = IF next_run' = -1 THEN "RuntimeError" ELSE "returned"
    /\ UNCHANGED <<now, exit_reason>>
    /\ UNCHANGED <<pipeVars, genVars, tgVars, vpVars, extVars>>

SpecNextRun == InitNextRun /\ [][NextRunCall]_vars

----------------------------------------------------------------------------
(* run_schedule_mode and sleep_until *)

\* Minutes a whole run_pipeline_with_retries call may take before the loop of
\* run_schedule_mode reads the clock again: a quick run, and one that outlasts
\* the hour between the 22:30 and the 23:30 slot.
QuickRunMinutes == 1
SlowRunMinutes == 61

\* while True: now = current_time(); next_run = get_next_run_datetime(now); print(...)
ScheduleLoop ==
    /\ sched_pc = "loop"
    /\ next_run' = get_next_run_datetime(now)
    /\ IF next_run' = -1
          THEN sched_pc' = "exit" /\ exit_reason' = "RuntimeError:get_next_run_datetime"
          ELSE sched_pc' = "sleep" /\ exit_reason' = exit_reason
    /\ UNCHANGED now
    /\ UNCHANGED <<pipeVars, genVars, tgVars, vpVars, extVars>>

\* One iteration of the loop of sleep_until(next_run), with the handler
\* `except KeyboardInterrupt: ... return` of run_schedule_mode around it; when the
\* target has arrived, run_pipeline_with_retries(next_run, send_telegram=True) is called.
SleepUntil ==
    /\ sched_pc = "sleep"
    /\ IF next_run - now <= 0
          THEN /\ sched_pc' = "run"
               /\ caller' = "schedule"
               /\ pc' = "call"
               /\ max_attempts' = DEFAULT_MAX_ATTEMPTS
               /\ send_telegram' = TRUE
               /\ attempt' = 0
               /\ last_exc' = "None"
               /\ result' = "pending"
               /\ outputs' = 0
               /\ runs' = 0
               /\ failures' = 0
               /\ UNCHANGED <<now, next_run, exit_reason>>
          ELSE /\ \/ /\ now' = now + Min(next_run - now, 1)
                     /\ UNCHANGED <<sched_pc, exit_reason>>
                  \/ /\ sched_pc' = "exit"
                     /\ exit_reason' = "KeyboardInterrupt"
                     /\ now' = now
               /\ UNCHANGED next_run
               /\ UNCHANGED pipeVars
    /\ UNCHANGED <<genVars, tgVars, vpVars, extVars>>

\* run_pipeline_with_retries has ended:
\*   returned          -> next iteration of while True
\*   RuntimeError      -> except RuntimeError: print(...); return
\*   KeyboardInterrupt -> leaves run_schedule_mode, caught in __main__
ScheduleAfterRun ==
    /\ sched_pc = "run"
    /\ pc = "done"
    /\ CASE result = "returned" ->
                 /\ sched_pc' = "loop"
                 /\ exit_reason' = exit_reason
                 /\ \E d \in {QuickRunMinutes, SlowRunMinutes} :
                        now' = (now + d) % MINUTES_PER_WEEK
         [] result = "RuntimeError" ->
                 /\ sched_pc' = "exit"
                 /\ exit_reason' = "RuntimeError"
                 /\ now' = now
         [] result = "KeyboardInterrupt" ->
                 /\ sched_pc' = "exit"
                 /\ exit_reason' = "KeyboardInterrupt"
                 /\ now' = now
    /\ UNCHANGED <<next_run, vpVars, extVars>>
    \* the frames of run_pipeline_with_retries and of its callees are gone
    /\ PipeIdle_next
    /\ GenReset_next
    /\ TgIdle_next

\* main() with --mode 2, started at any minute of a week.
InitSchedule ==
    /\ PipeIdle
    /\ GenReset
    /\ TgIdle
    /\ sched_pc = "loop"
    /\ now \in 0..(MINUTES_PER_WEEK - 1)
    /\ next_run = -1
    /\ exit_reason = "none"
    /\ VPIdle
    /\ ExtIdle

NextSchedule ==
    \/ ScheduleLoop
    \/ SleepUntil
    \/ ScheduleAfterRun
    \/ (sched_pc = "run" /\ NextPipeline)

SpecSchedule == InitSchedule /\ [][NextSchedule]_vars

----------------------------------------------------------------------------
(* Properties of the orchestrator *)

UNGUARDED_STEPS == {"etf_sector_heatmap", "market_breadth_hsi", "market_breadth_nq",
                    "spx_vix"}
GUARDED_STEPS == {"cbbc", "true_range", "trading_time"}

\* The generators and the assembly in the order the specification gives them.
EXPECTED_CALLS == <<"etf_sector_heatmap", "market_breadth_hsi", "market_breadth_nq",
                    "spx_vix", "cbbc", "true_range", "trading_time",
                    "build_dashboard_html">>

SeqToSet(q) == {q[i] : i \in 1..Len(q)}

\* run_generation_pipeline is no longer executing its generator steps
RunOver == pc \in {"retry_sleep", "done", "send_telegram_update", "telegram_sleep"}

\* the generator `step` raised an exception in the current pipeline run
GeneratorFailed(step) == step \in warned \/ raised = step

\* C1 as stated: whichever report generator fails, the failure is caught and the same
\* pipeline run still assembles the dashboard.
C1_AnyFailureStillAssembles ==
    \A step \in UNGUARDED_STEPS \cup GUARDED_STEPS :
        (GeneratorFailed(step) /\ RunOver /\ result # "KeyboardInterrupt")
            => (raised \notin UNGUARDED_STEPS \cup GUARDED_STEPS
                /\ "build_dashboard_html" \in SeqToSet(calls))

\* C1 amended: a failure of the CBBC, True Range or Trading Time step is caught and
\* logged, never leaves the run, and the run goes on to the later steps and calls
\* build_dashboard_html unless it is interrupted; a failure of the ETF heatmap, HSI
\* breadth, NQ breadth or SPX/VIX generator is not caught by run_generation_pipeline:
\* it ends the run at that step with no dashboard assembled.
C1_GuardedFailureStillAssembles ==
    /\ warned \subseteq GUARDED_STEPS
    /\ raised \notin GUARDED_STEPS
    /\ \A step \in warned :
          /\ step \in SeqToSet(calls)
          /\ (RunOver /\ result # "KeyboardInterrupt")
                => "build_dashboard_html" \in SeqToSet(calls)
    /\ raised \in UNGUARDED_STEPS
          => /\ RunOver
             /\ calls[Len(calls)] = raised
             /\ "build_dashboard_html" \notin SeqToSet(calls)
             /\ dashboards = 0
             /\ last_exc = "Exception"

\* C1 witness: CBBC, True Range and Trading Time all failed and the dashboard of the
\* same run was written.
C1_Witness ==
    /\ warned = GUARDED_STEPS
    /\ dashboards = 1
    /\ calls = EXPECTED_CALLS

\* C2: the generators are invoked one after another in the fixed order, a run that
\* returns assembled exactly one dashboard after all seven, and a Telegram post of the
\* pipeline is attempted only once that run's dashboard has been written.
C2_FixedOrderOneDashboardThenPost ==
    /\ Len(calls) <= Len(EXPECTED_CALLS)
    /\ \A i \in 1..Len(calls) : calls[i] = EXPECTED_CALLS[i]
    /\ dashboards <= 1
    /\ dashboards = 1 => calls = EXPECTED_CALLS
    /\ result = "returned" => (dashboards = 1 /\ outputs = attempt)
    /\ (caller # "direct" /\ (tg_posts > 0 \/ pc \in {"send_telegram_update", "telegram_sleep"}))
          => (send_telegram /\ dashboards = 1 /\ calls = EXPECTED_CALLS)

\* C2 witness: a Telegram post of a pipeline run succeeded.
C2_Witness ==
    /\ caller = "main"
    /\ tg_result = "True"
    /\ result = "returned"
    /\ calls = EXPECTED_CALLS

ExpectedAttempts == IF max_attempts < 1 THEN 1 ELSE max_attempts

\* C3: at most max(1, max_attempts) pipeline runs per trigger; the call returns at the
\* first attempt that completes, with that attempt's outputs; RuntimeError is raised
\* exactly when every attempt failed; a KeyboardInterrupt ends the call at once.
C3_RetriesBoundedFirstSuccessReturns ==
    caller = "main" =>
        /\ runs <= ExpectedAttempts
        /\ runs = attempt
        /\ result # "pending" <=> pc = "done"
        /\ result = "returned" => (failures = runs - 1 /\ outputs = runs /\ runs >= 1)
        /\ result = "RuntimeError" => (failures = ExpectedAttempts /\ runs = ExpectedAttempts)
        /\ (pc = "done" /\ failures = ExpectedAttempts) => result = "RuntimeError"
        /\ result = "KeyboardInterrupt" => failures < ExpectedAttempts
        /\ pc = "retry_sleep" => (failures = runs /\ runs < ExpectedAttempts)
        /\ failures <= runs

\* C3 witness: two attempts failed and the third returned its outputs.
C3_Witness ==
    /\ caller = "main"
    /\ result = "returned"
    /\ failures = 2
    /\ outputs = 3

\* a scheduled slot: Monday-Saturday at 09:00, 22:30 or 23:30
IsSlot(t) ==
    /\ ((t \div (24 * 60)) % 7) + 1 \in 1..6
    /\ t % (24 * 60) \in {9 * 60, 22 * 60 + 30, 23 * 60 + 30}

\* C4: get_next_run_datetime(current) is the earliest slot t >= current, is never on a
\* Sunday, and the RuntimeError is never raised.
C4_NextRunIsEarliestSlot ==
    /\ sched_pc # "RuntimeError"
    /\ sched_pc = "returned" =>
          /\ next_run >= now
          /\ IsSlot(next_run)
          /\ ((next_run \div (24 * 60)) % 7) + 1 # 7
          /\ \A t \in now..(next_run - 1) : ~IsSlot(t)

\* C4 witness: a reference time on a Saturday after 23:30, answered with Monday 09:00.
C4_Witness ==
    /\ sched_pc = "returned"
    /\ IsoWeekday(DateOf(now)) = 6
    /\ now % MINUTES_PER_DAY > 23 * 60 + 30
    /\ IsoWeekday(DateOf(next_run)) = 1
    /\ next_run % MINUTES_PER_DAY = 9 * 60

\* C5 as stated (its safety half): run_schedule_mode keeps scheduling further slots
\* until the user interrupts it, so it only ever ends on a KeyboardInterrupt.
C5_SchedulesUntilInterrupted ==
    sched_pc = "exit" => exit_reason = "KeyboardInterrupt"

\* C6: one send_telegram_update call makes at most TELEGRAM_MAX_SEND_RETRIES = 5 send
\* attempts, returns True at the first one that succeeds, and after 5 failed ones
\* raises the last exception if raise_on_error and returns False otherwise.
C6_TelegramSendBounded ==
    /\ tg_posts <= 5
    /\ tg_result = "True" => (tg_posts = tg_attempt /\ tg_posts >= 1 /\ tg_raised = "None"
                              /\ pc \notin {"send_telegram_update", "telegram_sleep"})
    /\ tg_result = "False" => (tg_posts = 5 /\ ~raise_on_error /\ tg_raised = "None")
    /\ (tg_result = "raised" /\ tg_posts > 0)
          => (tg_posts = 5 /\ raise_on_error /\ tg_raised = tg_last_exc
              /\ tg_raised \in {"URLError", "Exception"})
    /\ (tg_posts = 5 /\ tg_result \notin {"none", "True", "KeyboardInterrupt"})
          => tg_result = (IF raise_on_error THEN "raised" ELSE "False")
    /\ (tg_posts = 5 /\ tg_result = "none") => pc = "send_telegram_update"
    /\ pc = "telegram_sleep" => (tg_posts = tg_attempt /\ tg_attempt < 5)

\* C6 witness: five failed attempts with raise_on_error false, False returned.
C6_Witness ==
    /\ caller = "direct"
    /\ tg_result = "False"
    /\ tg_posts = 5
    /\ ~raise_on_error

----------------------------------------------------------------------------
(***************************************************************************)
(* Part II: the volume profile, src/VP/VP _backup_12Dec.py                 *)
(*                                                                         *)
(* Units.  A price is an integer number of quarters of a bin above p_min:  *)
(* bin i (0-based, as in numpy) has the edges 4i and 4i+4 and the centre   *)
(* profile_price[i] = 4i+2, so that the spot can sit on an edge, on a      *)
(* centre or in between.  A bin size is in 1/10000 of a price unit.        *)
(* Volumes are naturals; float rounding is not modelled.                   *)
(*                                                                         *)
(* Peaks.  A peak dict {'idx','price','volume'} is represented by its idx, *)
(* price and volume being profile_price[idx] and profile_vol[idx].  A list *)
(* of peaks is represented by the set of its indices: every peak list of   *)
(* plot_volume_profile is either in idx order or is only consumed through  *)
(* a sort or a max/min whose key is total (the prices of a list are        *)
(* distinct), so the set determines the list.                              *)
(***************************************************************************)

(* Program constants of plot_volume_profile *)
window_size == 6
max_allowed_diff == 10
near_bins == 40
max_dist_bins == 40
max_offset_bins == 450
window_bins_target == 100

(* Bounds of the model *)
MaxVol == 2
MaxBins == 4
MaxSidePeaks == 12

Abs(x) == IF x < 0 THEN -x ELSE x

\* len(profile_vol)
NumBins(vols) == Cardinality(DOMAIN vols)

\* profile_price = (bin_edges[:-1] + bin_edges[1:]) / 2
profile_price(i) == 4 * i + 2

\* p['volume'] and abs(p['price'] - spot_price) of the peak at bin p
volume(p) == profile_vol[p]
spot_distance(p) == Abs(profile_price(p) - current_price)

\* tick sizes of get_bin_size, in 1/10000
tick_sizes ==
    [GC |-> 1000, SI |-> 50, ES |-> 2500, NQ |-> 2500, TSLA |-> 100, AAPL |-> 100,
     NVDA |-> 100, CRS |-> 100, BTCUSD |-> 10000, ETHUSD |-> 5000,
     HSI2511 |-> 10000, HSI2512 |-> 10000]

GC_BIN_SIZE == 15000
GC_TICK_SIZE == 1000
GC_TICKS_PER_BIN == GC_BIN_SIZE \div GC_TICK_SIZE

get_bin_size(ticker_name) ==
    LET tick_size == IF ticker_name \in DOMAIN tick_sizes
                        THEN tick_sizes[ticker_name]
                        ELSE GC_TICK_SIZE
    IN  tick_size * GC_TICKS_PER_BIN

\* profile_vol[lo .. hi].sum()
RECURSIVE SumVol(_, _, _)
SumVol(vols, lo, hi) ==
    IF lo > hi THEN 0
    ELSE IF lo = hi THEN vols[lo]
    ELSE LET mid == (lo + hi) \div 2
         IN  SumVol(vols, lo, mid) + SumVol(vols, mid + 1, hi)

\* np.argmax(profile_vol): the first bin of maximum volume
\* (the comparison with the next bin is implied by the quantified one; it is
\* written first so that most bins are discarded at once)
ArgMax(vols) ==
    CHOOSE i \in DOMAIN vols :
        /\ (i + 1 \in DOMAIN vols => vols[i + 1] <= vols[i])
        /\ \A j \in DOMAIN vols : /\ vols[j] <= vols[i]
                                  /\ (j < i => vols[j] < vols[i])

\* int(np.argmin(np.abs(profile_price - current_price))): the first closest bin
ArgMinDistance(vols, spot_price) ==
    CHOOSE i \in DOMAIN vols :
        /\ (i + 1 \in DOMAIN vols =>
               Abs(profile_price(i) - spot_price) <= Abs(profile_price(i + 1) - spot_price))
        /\ \A j \in DOMAIN vols :
              /\ Abs(profile_price(i) - spot_price) <= Abs(profile_price(j) - spot_price)
              /\ (j < i => Abs(profile_price(j) - spot_price) > Abs(profile_price(i) - spot_price))

\* local maxima that are strictly above both neighbours: no bin of a flat run
StrictLocalMaxima(vols_arr) ==
    LET n == NumBins(vols_arr)
    IN  IF n < 3 THEN {}
        ELSE {i \in 1..(n - 2) :
                 vols_arr[i] > vols_arr[i - 1] /\ vols_arr[i] > vols_arr[i + 1]}

\* find_local_maxima(prices_arr, vols_arr): the idx of the candidates
find_local_maxima(vols_arr) ==
    LET n == NumBins(vols_arr)
    IN  IF n < 3 THEN {}
        ELSE {i \in 1..(n - 2) :
                 vols_arr[i] >= vols_arr[i - 1] /\ vols_arr[i] >= vols_arr[i + 1]}

\* sel_key(a) > sel_key(b), sel_key = (volume, -abs(price - spot_price), price)
SelKeyGreater(a, b) ==
    \/ volume(a) > volume(b)
    \/ /\ volume(a) = volume(b)
       /\ \/ spot_distance(a) < spot_distance(b)
          \/ /\ spot_distance(a) = spot_distance(b)
             /\ profile_price(a) > profile_price(b)

\* max(all_candidates, key=sel_key)
BestBySelKey(all_candidates) ==
    CHOOSE best \in all_candidates :
        \A other \in all_candidates \ {best} : SelKeyGreater(best, other)

\* candidates_sorted[0] of what is left of candidates_sorted
NextCandidate(rest) == CHOOSE c \in rest : \A d \in rest : c <= d

apply_strength_threshold(peaks, ratio_tenths) ==
    IF peaks = {} THEN {}
    ELSE LET vmax == CHOOSE v \in {volume(p) : p \in peaks} :
                         \A p \in peaks : volume(p) <= v
         IN  {p \in peaks : 10 * volume(p) >= ratio_tenths * vmax}

\* removal_key_up(a) < removal_key_up(b): (volume, abs(price - spot), price)
RemovalKeyUpLess(a, b) ==
    \/ volume(a) < volume(b)
    \/ /\ volume(a) = volume(b)
       /\ \/ spot_distance(a) < spot_distance(b)
          \/ /\ spot_distance(a) = spot_distance(b)
             /\ profile_price(a) < profile_price(b)

\* removal_key_dn(a) < removal_key_dn(b): (volume, abs(price - spot), -price)
RemovalKeyDnLess(a, b) ==
    \/ volume(a) < volume(b)
    \/ /\ volume(a) = volume(b)
       /\ \/ spot_distance(a) < spot_distance(b)
          \/ /\ spot_distance(a) = spot_distance(b)
             /\ profile_price(a) > profile_price(b)

\* remove_one(side): the side without sorted(side, key=removal_key)[0]
remove_one_up(side_up) ==
    IF side_up = {} THEN side_up
    ELSE side_up \ {CHOOSE victim \in side_up :
                       \A p \in side_up \ {victim} : RemovalKeyUpLess(victim, p)}

remove_one_dn(side_dn) ==
    IF side_dn = {} THEN side_dn
    ELSE side_dn \ {CHOOSE victim \in side_dn :
                       \A p \in side_dn \ {victim} : RemovalKeyDnLess(victim, p)}

balance_loop_off(side_up, side_dn, max_diff) == [up |-> side_up, dn |-> side_dn]

\* while abs(len(peaks_up) - len(peaks_dn)) > max_allowed_diff: remove_one(larger side)
RECURSIVE balance_loop(_, _, _)
balance_loop(side_up, side_dn, max_diff) ==
    IF Abs(Cardinality(side_up) - Cardinality(side_dn)) > max_diff
       THEN IF Cardinality(side_up) > Cardinality(side_dn)
               THEN balance_loop(remove_one_up(side_up), side_dn, max_diff)
               ELSE balance_loop(side_up, remove_one_dn(side_dn), max_diff)
       ELSE [up |-> side_up, dn |-> side_dn]

\* balance_up_down with x_target = y_target = None, as at both call sites
balance_up_down(peaks, spot_price, max_diff) ==
    balance_loop({p \in peaks : profile_price(p) > spot_price},
                 {p \in peaks : profile_price(p) < spot_price},
                 max_diff)

has_near_peak(peaks_side, side, sidx, near) ==
    IF side = "up"
       THEN \E p \in peaks_side : 0 < p - sidx /\ p - sidx <= near
       ELSE \E p \in peaks_side : 0 < sidx - p /\ sidx - p <= near

\* round(320000 * log3(v)): 200 * max_dist_bins^2 * log3(v)
LOG3_SCALED == <<0, 201898, 320000, 403795, 468792, 521898>>

\* max_dist_bins * d_norm
d_norm_scaled(d) ==
    IF d < max_dist_bins THEN d ELSE max_dist_bins + (d - max_dist_bins)

\* score = (volume / vmax) * exp(-log(3) * d_norm^2) of two peaks of one side is
\* compared through 320000 * log3(vmax * score) = LOG3_SCALED[volume] - 200 * (40 * d_norm)^2;
\* a peak of volume 0 has score 0.  Among the volumes of one filtered list no two
\* different (volume, distance) pairs have the same score.
ScoreHigher(a, b, sidx) ==
    IF volume(a) = 0 THEN FALSE
    ELSE IF volume(b) = 0 THEN TRUE
    ELSE LOG3_SCALED[volume(a)] - 200 * d_norm_scaled(Abs(a - sidx)) * d_norm_scaled(Abs(a - sidx))
         > LOG3_SCALED[volume(b)] - 200 * d_norm_scaled(Abs(b - sidx)) * d_norm_scaled(Abs(b - sidx))

\* a comes before b in sorted(scored, key=score, reverse=True): the sort is stable
\* and the input is in idx order
ScoredBefore(a, b, sidx) ==
    \/ ScoreHigher(a, b, sidx)
    \/ (~ScoreHigher(b, a, sidx) /\ a < b)

\* score_and_filter_peaks_side(peaks_side, spot_idx, score_ratio=0.0, top_k=top_k)
score_and_filter_peaks_side(peaks_side, sidx, top_k) ==
    IF peaks_side = {} THEN {}
    ELSE IF \A p \in peaks_side : volume(p) <= 0 THEN peaks_side
    ELSE IF top_k > 0
            THEN {p \in peaks_side :
                     Cardinality({q \in peaks_side : ScoredBefore(q, p, sidx)}) < top_k}
            ELSE peaks_side

orchVars == <<pipeVars, genVars, tgVars, schedVars>>

RescoreInputAfterBalance == initial_peaks_up \cup initial_peaks_dn

\* raw_up and raw_dn are taken from filtered_peaks
RescoreInput == filtered_peaks

\* while current_vol < target and (low_idx > 0 or high_idx < len(profile_vol)-1),
\* with target = total_vol
ValueAreaLoopCondition ==
    /\ current_vol < total_vol
    /\ (low_idx > 0 \/ high_idx < NumBins(profile_vol) - 1)

GrowsDownSmaller(vol_below, vol_above, low) == vol_below <= vol_above /\ low > 0

\* if vol_below >= vol_above and low_idx > 0
GrowsDown(vol_below, vol_above, low) == vol_below >= vol_above /\ low > 0

----------------------------------------------------------------------------
(* plot_volume_profile, statement by statement *)

\* total_vol = profile_vol.sum(); poc_idx = np.argmax(profile_vol)
ProfileTotals ==
    /\ vp_pc = "start"
    /\ total_vol' = SumVol(profile_vol, 0, NumBins(profile_vol) - 1)
    /\ poc_idx' = ArgMax(profile_vol)
    /\ vp_pc' = "find_local_maxima"
    /\ UNCHANGED <<stages, name, gc_reference, profile_vol, current_price, candidate_peaks,
                   pending, kept, deduped_peaks, filtered_peaks, initial_peaks_up, initial_peaks_dn,
                   spot_idx, need_rescore, rescored_up, rescored_dn, peaks_up, peaks_dn, before_window_clip,
                   final_peaks, low_idx, high_idx, current_vol, plot_result, first_call>>
    /\ UNCHANGED <<orchVars, extVars>>

\* candidate_peaks = find_local_maxima(profile_price, profile_vol), and the
\* entry of dedup_within_window: candidates_sorted, kept = []
FindLocalMaxima ==
    /\ vp_pc = "find_local_maxima"
    /\ candidate_peaks' = find_local_maxima(profile_vol)
    /\ pending' = candidate_peaks'
    /\ kept' = {}
    /\ stages' = Append(stages, "find_local_maxima")
    /\ vp_pc' = "dedup_within_window"
    /\ UNCHANGED <<name, gc_reference, profile_vol, current_price, total_vol, poc_idx, deduped_peaks,
                   filtered_peaks, initial_peaks_up, initial_peaks_dn, spot_idx, need_rescore,
                   rescored_up, rescored_dn, peaks_up, peaks_dn, before_window_clip, final_peaks,
                   low_idx, high_idx, current_vol, plot_result, first_call>>
    /\ UNCHANGED <<orchVars, extVars>>

\* one iteration of `for candidate in candidates_sorted`
DedupStep ==
    /\ vp_pc = "dedup_within_window"
    /\ pending # {}
    /\ LET candidate == NextCandidate(pending)
           conflicts == {peak \in kept : Abs(candidate - peak) < window_size}
       IN  /\ kept' = IF conflicts = {}
                         THEN kept \cup {candidate}
                         ELSE (kept \ conflicts) \cup {BestBySelKey({candidate} \cup conflicts)}
           /\ pending' = pending \ {candidate}
    /\ UNCHANGED <<vp_pc, stages, name, gc_reference, profile_vol, current_price, total_vol,
                   poc_idx, candidate_peaks, deduped_peaks, filtered_peaks, initial_peaks_up,
                   initial_peaks_dn, spot_idx, need_rescore, rescored_up, rescored_dn, peaks_up,
                   peaks_dn, before_window_clip, final_peaks, low_idx, high_idx, current_vol,
                   plot_result, first_call>>
    /\ UNCHANGED <<orchVars, extVars>>

\* the loop of dedup_within_window is over: deduped_peaks = sorted(kept, key=idx)
DedupReturn ==
    /\ vp_pc = "dedup_within_window"
    /\ pending = {}
    /\ deduped_peaks' = kept
    /\ stages' = Append(stages, "dedup_within_window")
    /\ vp_pc' = "apply_strength_threshold"
    /\ UNCHANGED <<name, gc_reference, profile_vol, current_price, total_vol, poc_idx, candidate_peaks,
                   pending, kept, filtered_peaks, initial_peaks_up, initial_peaks_dn, spot_idx,
                   need_rescore, rescored_up, rescored_dn, peaks_up, peaks_dn, before_window_clip,
                   final_peaks, low_idx, high_idx, current_vol, plot_result, first_call>>
    /\ UNCHANGED <<orchVars, extVars>>

\* filtered_peaks = apply_strength_threshold(deduped_peaks, ratio=0.4) and the two
\* fallbacks: the deduped peaks, then the bin closest to the spot
StrengthThreshold ==
    /\ vp_pc = "apply_strength_threshold"
    /\ LET thresholded == apply_strength_threshold(deduped_peaks, 4)
           fallback == IF thresholded = {} THEN deduped_peaks ELSE thresholded
           closest_idx == ArgMinDistance(profile_vol, current_price)
       IN  filtered_peaks' = IF fallback = {} /\ NumBins(profile_vol) >= 3
                                THEN {closest_idx}
                                ELSE fallback
    /\ stages' = Append(stages, "apply_strength_threshold")
    /\ vp_pc' = "balance_up_down"
    /\ UNCHANGED <<name, gc_reference, profile_vol, current_price, total_vol, poc_idx, candidate_peaks,
                   pending, kept, deduped_peaks, initial_peaks_up, initial_peaks_dn, spot_idx,
                   need_rescore, rescored_up, rescored_dn, peaks_up, peaks_dn, before_window_clip,
                   final_peaks, low_idx, high_idx, current_vol, plot_result, first_call>>
    /\ UNCHANGED <<orchVars, extVars>>

\* the first balance_up_down, spot_idx and need_rescore
FirstBalance ==
    /\ vp_pc = "balance_up_down"
    /\ LET balanced == balance_up_down(filtered_peaks, current_price, max_allowed_diff)
       IN  /\ initial_peaks_up' = balanced.up
           /\ initial_peaks_dn' = balanced.dn
    /\ spot_idx' = ArgMinDistance(profile_vol, current_price)
    /\ need_rescore' = (\/ ~has_near_peak(initial_peaks_up', "up", spot_idx', near_bins)
                        \/ ~has_near_peak(initial_peaks_dn', "dn", spot_idx', near_bins))
    /\ stages' = Append(stages, "balance_up_down")
    /\ vp_pc' = IF need_rescore' THEN "rescore" ELSE "keep_first_balance"
    /\ UNCHANGED <<name, gc_reference, profile_vol, current_price, total_vol, poc_idx, candidate_peaks,
                   pending, kept, deduped_peaks, filtered_peaks, rescored_up, rescored_dn, peaks_up,
                   peaks_dn, before_window_clip, final_peaks, low_idx, high_idx, current_vol,
                   plot_result, first_call>>
    /\ UNCHANGED <<orchVars, extVars>>

\* if not need_rescore: peaks_up, peaks_dn = initial_peaks_up, initial_peaks_dn
KeepFirstBalance ==
    /\ vp_pc = "keep_first_balance"
    /\ peaks_up' = initial_peaks_up
    /\ peaks_dn' = initial_peaks_dn
    /\ vp_pc' = "value_area_init"
    /\ UNCHANGED <<stages, name, gc_reference, profile_vol, current_price, total_vol, poc_idx,
                   candidate_peaks, pending, kept, deduped_peaks, filtered_peaks, initial_peaks_up,
                   initial_peaks_dn, spot_idx, need_rescore, rescored_up, rescored_dn, before_window_clip,
                   final_peaks, low_idx, high_idx, current_vol, plot_result, first_call>>
    /\ UNCHANGED <<orchVars, extVars>>

\* else: raw_up / raw_dn and the top-k of the side with more peaks
Rescore ==
    /\ vp_pc = "rescore"
    /\ LET raw_up == {p \in RescoreInput : profile_price(p) > current_price}
           raw_dn == {p \in RescoreInput : profile_price(p) < current_price}
           N_up_raw == Cardinality(raw_up)
           N_dn_raw == Cardinality(raw_dn)
           bigger_side == IF N_up_raw >= N_dn_raw THEN "up" ELSE "dn"
           smaller_count == Min(N_up_raw, N_dn_raw)
           target_big == smaller_count + 10
       IN  IF bigger_side = "up" /\ N_up_raw > 0
              THEN /\ rescored_up' = score_and_filter_peaks_side(raw_up, spot_idx,
                                                                 Min(target_big, N_up_raw))
                   /\ rescored_dn' = raw_dn
              ELSE IF bigger_side = "dn" /\ N_dn_raw > 0
                      THEN /\ rescored_dn' = score_and_filter_peaks_side(raw_dn, spot_idx,
                                                                         Min(target_big, N_dn_raw))
                           /\ rescored_up' = raw_up
                      ELSE /\ rescored_up' = raw_up
                           /\ rescored_dn' = raw_dn
    /\ stages' = Append(stages, "score_and_filter_peaks_side")
    /\ vp_pc' = "second_balance"
    /\ UNCHANGED <<name, gc_reference, profile_vol, current_price, total_vol, poc_idx, candidate_peaks,
                   pending, kept, deduped_peaks, filtered_peaks, initial_peaks_up, initial_peaks_dn,
                   spot_idx, need_rescore, peaks_up, peaks_dn, before_window_clip, final_peaks,
                   low_idx, high_idx, current_vol, plot_result, first_call>>
    /\ UNCHANGED <<orchVars, extVars>>

\* peaks_up, peaks_dn = balance_up_down(rescored_up + rescored_dn, ...)
SecondBalance ==
    /\ vp_pc = "second_balance"
    /\ LET balanced == balance_up_down(rescored_up \cup rescored_dn, current_price,
                                       max_allowed_diff)
       IN  /\ peaks_up' = balanced.up
           /\ peaks_dn' = balanced.dn
    /\ stages' = Append(stages, "balance_up_down")
    /\ vp_pc' = "value_area_init"
    /\ UNCHANGED <<name, gc_reference, profile_vol, current_price, total_vol, poc_idx, candidate_peaks,
                   pending, kept, deduped_peaks, filtered_peaks, initial_peaks_up, initial_peaks_dn,
                   spot_idx, need_rescore, rescored_up, rescored_dn, before_window_clip, final_peaks,
                   low_idx, high_idx, current_vol, plot_result, first_call>>
    /\ UNCHANGED <<orchVars, extVars>>

\* final_peaks = sorted(peaks_up + peaks_dn, key=price, reverse=True);
\* target = total_vol; low_idx = high_idx = poc_idx; current_vol = profile_vol[poc_idx]
ValueAreaInit ==
    /\ vp_pc = "value_area_init"
    /\ final_peaks' = peaks_up \cup peaks_dn
    /\ low_idx' = poc_idx
    /\ high_idx' = poc_idx
    /\ current_vol' = profile_vol[poc_idx]
    /\ vp_pc' = "value_area"
    /\ UNCHANGED <<stages, name, gc_reference, profile_vol, current_price, total_vol, poc_idx,
                   candidate_peaks, pending, kept, deduped_peaks, filtered_peaks, initial_peaks_up,
                   initial_peaks_dn, spot_idx, need_rescore, rescored_up, rescored_dn, peaks_up,
                   peaks_dn, before_window_clip, plot_result, first_call>>
    /\ UNCHANGED <<orchVars, extVars>>

\* one iteration of the value area loop
ValueAreaStep ==
    /\ vp_pc = "value_area"
    /\ ValueAreaLoopCondition
    /\ LET n == NumBins(profile_vol)
           vol_below == IF low_idx > 0 THEN profile_vol[low_idx - 1] ELSE 0
           vol_above == IF high_idx < n - 1 THEN profile_vol[high_idx + 1] ELSE 0
       IN  IF GrowsDown(vol_below, vol_above, low_idx)
              THEN /\ low_idx' = low_idx - 1
                   /\ current_vol' = current_vol + profile_vol[low_idx - 1]
                   /\ UNCHANGED <<high_idx, vp_pc>>
              ELSE IF high_idx < n - 1
                      THEN /\ high_idx' = high_idx + 1
                           /\ current_vol' = current_vol + profile_vol[high_idx + 1]
                           /\ UNCHANGED <<low_idx, vp_pc>>
                      ELSE /\ vp_pc' = "display_window"
                           /\ UNCHANGED <<low_idx, high_idx, current_vol>>
    /\ UNCHANGED <<stages, name, gc_reference, profile_vol, current_price, total_vol, poc_idx,
                   candidate_peaks, pending, kept, deduped_peaks, filtered_peaks, initial_peaks_up,
                   initial_peaks_dn, spot_idx, need_rescore, rescored_up, rescored_dn, peaks_up,
                   peaks_dn, before_window_clip, final_peaks, plot_result, first_call>>
    /\ UNCHANGED <<orchVars, extVars>>

\* val_price / vah_price, the display window clip of final_peaks, the initial
\* window and the returned dict
NeverShiftedBack(high_first, max_allowed_idx, window_bins) == FALSE

\* if window_bins > 0 and initial_high_idx > max_allowed_idx
ShiftedBack(high_first, max_allowed_idx, window_bins) ==
    window_bins > 0 /\ high_first > max_allowed_idx

DisplayWindow ==
    /\ \/ vp_pc = "value_area" /\ ~ValueAreaLoopCondition
       \/ vp_pc = "display_window"
    /\ LET n == NumBins(profile_vol)
           sidx == ArgMinDistance(profile_vol, current_price)
           min_allowed_idx == Max(sidx - max_offset_bins, 0)
           max_allowed_idx == Min(sidx + max_offset_bins, n - 1)
           display_lower_bound == profile_price(min_allowed_idx)
           display_upper_bound == profile_price(max_allowed_idx)
           len_subset_prices == max_allowed_idx - min_allowed_idx + 1
           window_bins_min == Min(window_bins_target, len_subset_prices)
           window_bins == IF window_bins_min = 0 /\ len_subset_prices > 0
                             THEN len_subset_prices
                             ELSE window_bins_min
           half_window == IF window_bins > 0 THEN window_bins \div 2 ELSE 0
           low_first == Max(sidx - half_window, min_allowed_idx)
           high_first == IF window_bins > 0 THEN low_first + window_bins - 1
                                            ELSE min_allowed_idx
           shifted == ShiftedBack(high_first, max_allowed_idx, window_bins)
           initial_high_idx == IF shifted THEN max_allowed_idx ELSE high_first
           initial_low_idx == IF shifted
                                 THEN Max(initial_high_idx - window_bins + 1, min_allowed_idx)
                                 ELSE low_first
           no_window == window_bins <= 0 \/ len_subset_prices = 0
       IN  /\ before_window_clip' = final_peaks
           /\ final_peaks' = {p \in final_peaks :
                                 /\ display_lower_bound <= profile_price(p)
                                 /\ profile_price(p) <= display_upper_bound}
           /\ plot_result' =
                 [returned |-> TRUE,
                  bin_size |-> get_bin_size(name),
                  scroll_range |-> [lower |-> display_lower_bound,
                                    upper |-> display_upper_bound],
                  initial_range |->
                      [lower |-> IF no_window THEN display_lower_bound
                                              ELSE profile_price(initial_low_idx),
                       upper |-> IF no_window THEN display_upper_bound
                                              ELSE profile_price(initial_high_idx)],
                  display_bin_count |-> len_subset_prices,
                  final_peaks |-> final_peaks',
                  window_bins |-> window_bins,
                  initial_offset |-> Max(initial_low_idx - min_allowed_idx, 0),
                  max_offset |-> IF window_bins > 0
                                    THEN Max(len_subset_prices - window_bins, 0)
                                    ELSE 0,
                  val_price |-> profile_price(low_idx),
                  vah_price |-> profile_price(high_idx),
                  rescore_triggered |-> need_rescore]
    /\ vp_pc' = "done"
    /\ UNCHANGED <<stages, name, gc_reference, profile_vol, current_price, total_vol, poc_idx,
                   candidate_peaks, pending, kept, deduped_peaks, filtered_peaks, initial_peaks_up,
                   initial_peaks_dn, spot_idx, need_rescore, rescored_up, rescored_dn, peaks_up,
                   peaks_dn, low_idx, high_idx, current_vol, first_call>>
    /\ UNCHANGED <<orchVars, extVars>>

----------------------------------------------------------------------------
(* The histograms plot_volume_profile is run on *)

\* every histogram of at most MaxBins bins with volumes up to MaxVol
SmallProfiles == UNION {[0..(n - 1) -> 0..MaxVol] : n \in 1..MaxBins}

\* A comb: n_dn peaks below the spot bin and n_up peaks above it, window_size bins
\* apart, the first one half a window from the spot bin, `far` empty bins between
\* the spot bin and the peaks above it.  The k-th peak from the spot has volume
\* MaxVol ("flat") or alternates between MaxVol - 1 and MaxVol.
CombSpotIdx(n_dn) == window_size * n_dn

CombPeakVolume(shape, k) == IF shape = "flat" THEN MaxVol ELSE MaxVol - (k % 2)

CombProfile(n_dn, n_up, far, shape) ==
    LET s == CombSpotIdx(n_dn)
        half == window_size \div 2
        n == s + far + window_size * n_up + 1
    IN  [i \in 0..(n - 1) |->
            IF i < s /\ (s - i) % window_size = half
               THEN CombPeakVolume(shape, (s - i - half) \div window_size + 1)
            ELSE IF i > s + far /\ (i - s - far) % window_size = half
               THEN CombPeakVolume(shape, (i - s - far - half) \div window_size + 1)
            ELSE 0]

SidePeakCounts == {0, 1, 2, MaxSidePeaks - 1, MaxSidePeaks}
FarGaps == {0, max_offset_bins}

\* A long histogram: a ramp of n bins, bin i with volume i + 1, so that no interior
\* bin is a local maximum; it has more bins than the visible window, or than the
\* scroll range on both sides of the spot.  The spot is at an end, about half a
\* window from an end, or about max_offset_bins from an end.
LongLengths == {window_bins_target + 1, 2 * max_offset_bins + 3}
LongProfile(n) == [i \in 0..(n - 1) |-> i + 1]
LongSpotIdx(n) ==
    {0, window_bins_target \div 2 - 1, window_bins_target \div 2,
     n - window_bins_target \div 2, n - window_bins_target \div 2 + 1,
     max_offset_bins, max_offset_bins + 1, n - 1} \cap (0..(n - 1))

\* plot_volume_profile(data_20d, 'GC', N_DAYS): the first call of generate_dashboard,
\* after the histogram is built
InitVP ==
    /\ PipeIdle
    /\ GenReset
    /\ TgIdle
    /\ SchedOff
    /\ vp_pc = "start"
    /\ name = "GC"
    /\ gc_reference = GC_REFERENCE_NONE
    /\ \/ /\ profile_vol \in SmallProfiles
          /\ current_price \in 0..(4 * NumBins(profile_vol))
       \/ \E n_dn \in SidePeakCounts, n_up \in SidePeakCounts, far \in FarGaps,
             shape \in {"flat", "alternating"} :
             /\ (far = 0 \/ shape = "flat")
             /\ profile_vol = CombProfile(n_dn, n_up, far, shape)
             /\ current_price = profile_price(CombSpotIdx(n_dn))
       \/ \E n \in LongLengths :
             /\ profile_vol = LongProfile(n)
             /\ \E k \in LongSpotIdx(n) : current_price = profile_price(k)
    /\ VPLocalsReset
    /\ first_call = NO_CALL
    /\ ExtIdle

NextVP ==
    \/ ProfileTotals
    \/ FindLocalMaxima
    \/ DedupStep
    \/ DedupReturn
    \/ StrengthThreshold
    \/ FirstBalance
    \/ KeepFirstBalance
    \/ Rescore
    \/ SecondBalance
    \/ ValueAreaInit
    \/ ValueAreaStep
    \/ DisplayWindow

SpecVP == InitVP /\ [][NextVP]_vars

----------------------------------------------------------------------------
(* generate_dashboard: a symbol other than GC plotted twice on the same data, *)
(* with two different gc_reference values                                     *)

\* gc_reference = {'price': spot_price, 'bin_size': bin_size, 'display_range': ...}
\* built from the result of the GC call
GCReferenceOf(spot_price, display_bins) ==
    [given |-> TRUE, price |-> spot_price, bin_size |-> get_bin_size("GC"),
     display_range |-> display_bins * get_bin_size("GC")]

\* None (GC=F gave no data), or the reference of a GC profile of 100 or of 900 bins
GC_REFERENCES ==
    {GC_REFERENCE_NONE, GCReferenceOf(26500000, 100), GCReferenceOf(27000000, 900)}

\* names process_ticker gives to SI=F, NIY=F and BTC-USD
OTHER_NAMES == {"SI", "NIY", "BTCUSD"}

VPLocalsReset_next ==
    /\ stages' = <<>>
    /\ total_vol' = 0
    /\ poc_idx' = 0
    /\ candidate_peaks' = {}
    /\ pending' = {}
    /\ kept' = {}
    /\ deduped_peaks' = {}
    /\ filtered_peaks' = {}
    /\ initial_peaks_up' = {}
    /\ initial_peaks_dn' = {}
    /\ spot_idx' = 0
    /\ need_rescore' = FALSE
    /\ rescored_up' = {}
    /\ rescored_dn' = {}
    /\ peaks_up' = {}
    /\ peaks_dn' = {}
    /\ before_window_clip' = {}
    /\ final_peaks' = {}
    /\ low_idx' = 0
    /\ high_idx' = 0
    /\ current_vol' = 0
    /\ plot_result' = NO_RESULT

InitGCReference ==
    /\ PipeIdle
    /\ GenReset
    /\ TgIdle
    /\ SchedOff
    /\ vp_pc = "start"
    /\ name \in OTHER_NAMES
    /\ gc_reference \in GC_REFERENCES
    /\ profile_vol \in SmallProfiles \cup {CombProfile(1, 1, 0, "flat")}
    /\ current_price = profile_price(NumBins(profile_vol) \div 2)
    /\ VPLocalsReset
    /\ first_call = NO_CALL
    /\ ExtIdle

\* plot_volume_profile(data_20d, name, N_DAYS, gc_reference=...) once more on the
\* same data, with another gc_reference
PlotAgain ==
    /\ vp_pc = "done"
    /\ ~first_call.result.returned
    /\ first_call' = [gc_reference |-> gc_reference, result |-> plot_result]
    /\ \E other \in GC_REFERENCES \ {gc_reference} : gc_reference' = other
    /\ vp_pc' = "start"
    /\ VPLocalsReset_next
    /\ UNCHANGED <<name, profile_vol, current_price>>
    /\ UNCHANGED <<orchVars, extVars>>

NextGCReference ==
    \/ NextVP
    \/ PlotAgain

SpecGCReference == InitGCReference /\ [][NextGCReference]_vars

----------------------------------------------------------------------------
(* Properties of plot_volume_profile *)

STAGES_WITHOUT_RESCORE ==
    <<"find_local_maxima", "dedup_within_window", "apply_strength_threshold",
      "balance_up_down">>

STAGES_WITH_RESCORE ==
    STAGES_WITHOUT_RESCORE \o <<"score_and_filter_peaks_side", "balance_up_down">>

IsPrefix(s, t) == Len(s) <= Len(t) /\ \A i \in 1..Len(s) : s[i] = t[i]

\* peaks_up and peaks_dn hold the peaks plot_volume_profile selected
PeaksDecided == vp_pc \in {"value_area_init", "value_area", "display_window", "done"}

Above(peaks) == {p \in peaks : profile_price(p) > current_price}
Below(peaks) == {p \in peaks : profile_price(p) < current_price}

SideDifference(side_up, side_dn) == Abs(Cardinality(side_up) - Cardinality(side_dn))

\* `kept_side` is what the rescoring keeps of the side `raw_side` that has more
\* peaks: the best min(smaller + 10, N) by score, or every peak when no peak of
\* the side has volume
IsTopScored(kept_side, raw_side, smaller_count) ==
    /\ kept_side \subseteq raw_side
    /\ \/ /\ Cardinality(kept_side) = Min(smaller_count + 10, Cardinality(raw_side))
          /\ \A p \in kept_side : \A q \in raw_side \ kept_side :
                 ~ScoreHigher(q, p, spot_idx)
       \/ /\ kept_side = raw_side
          /\ \A p \in raw_side : volume(p) = 0

\* C7 as stated: the stages run in the order local maxima, window dedup, strength
\* threshold, balance-by-side, optional rescoring, and the rescoring, when it is
\* triggered, works on the peaks the balance-by-side step produced.
C7_RescoreWorksOnBalancedPeaks ==
    /\ IsPrefix(stages, STAGES_WITH_RESCORE)
    /\ (Len(stages) >= 5 =>
           rescored_up \cup rescored_dn \subseteq initial_peaks_up \cup initial_peaks_dn)

\* C7 (amended): the stages run in the order local maxima, window dedup (no two
\* kept peaks less than 6 bins apart), strength threshold (40% of the strongest
\* deduped peak, or the bin closest to the spot when nothing was found),
\* balance-by-side (difference at most 10).  When no rescoring is needed the
\* balanced peaks are the selected peaks.  When it is needed, the rescoring drops
\* the result of the balance and works on the strength-filtered peaks: the side
\* with fewer of them is kept whole, the other side keeps its (fewer + 10) best
\* peaks by score, and a second balance-by-side follows.
C7_StagesAndRescoreInput ==
    /\ IsPrefix(stages, STAGES_WITH_RESCORE)
    /\ (PeaksDecided =>
           stages = IF need_rescore THEN STAGES_WITH_RESCORE ELSE STAGES_WITHOUT_RESCORE)
    /\ (Len(stages) >= 2 =>
           /\ deduped_peaks \subseteq candidate_peaks
           /\ \A a \in deduped_peaks : \A b \in deduped_peaks \ {a} :
                  Abs(a - b) >= window_size)
    /\ (Len(stages) >= 3 =>
           \/ /\ deduped_peaks # {}
              /\ filtered_peaks \subseteq deduped_peaks
              /\ \A p \in deduped_peaks :
                     p \in filtered_peaks <=>
                         \A q \in deduped_peaks : 10 * volume(p) >= 4 * volume(q)
           \/ /\ deduped_peaks = {}
              /\ filtered_peaks \subseteq DOMAIN profile_vol
              /\ \A spot_bin \in filtered_peaks : \A j \in DOMAIN profile_vol :
                     spot_distance(spot_bin) <= spot_distance(j))
    /\ (Len(stages) >= 4 =>
           /\ initial_peaks_up \subseteq Above(filtered_peaks)
           /\ initial_peaks_dn \subseteq Below(filtered_peaks)
           /\ SideDifference(initial_peaks_up, initial_peaks_dn) <= max_allowed_diff
           /\ need_rescore <=>
                  \/ ~\E p \in initial_peaks_up : p - spot_idx \in 1..near_bins
                  \/ ~\E p \in initial_peaks_dn : spot_idx - p \in 1..near_bins)
    /\ (Len(stages) >= 5 =>
           LET raw_up == Above(filtered_peaks)
               raw_dn == Below(filtered_peaks)
           IN  IF Cardinality(raw_up) >= Cardinality(raw_dn)
                  THEN /\ rescored_dn = raw_dn
                       /\ IsTopScored(rescored_up, raw_up, Cardinality(raw_dn))
                  ELSE /\ rescored_up = raw_up
                       /\ IsTopScored(rescored_dn, raw_dn, Cardinality(raw_up)))
    /\ (PeaksDecided =>
           IF need_rescore
              THEN /\ peaks_up \subseteq rescored_up
                   /\ peaks_dn \subseteq rescored_dn
              ELSE /\ peaks_up = initial_peaks_up
                   /\ peaks_dn = initial_peaks_dn)

\* C7 witness: the first balance removed a peak, rescoring was triggered, and a peak the
\* balance had removed is among the returned peaks
C7_Witness ==
    /\ vp_pc = "done"
    /\ need_rescore
    /\ initial_peaks_up \cup initial_peaks_dn # Above(filtered_peaks) \cup Below(filtered_peaks)
    /\ \E p \in plot_result.final_peaks : p \notin initial_peaks_up \cup initial_peaks_dn

\* C8 as stated: in the returned final_peaks the number of peaks above the spot
\* and the number below it differ by at most 10, for every profile.
C8_ReturnedPeaksBalanced ==
    vp_pc = "done" =>
        SideDifference(Above(plot_result.final_peaks), Below(plot_result.final_peaks))
            <= max_allowed_diff

\* C8 (amended): the peaks selected before the display window clip are balanced by
\* side (difference at most 10); the returned final_peaks are the selected peaks
\* within max_offset_bins bins of the spot bin, and they are balanced whenever
\* the clip removed no peak.
C8_BalancedBeforeClip ==
    /\ (PeaksDecided =>
           /\ peaks_up = Above(peaks_up \cup peaks_dn)
           /\ peaks_dn = Below(peaks_up \cup peaks_dn)
           /\ SideDifference(peaks_up, peaks_dn) <= max_allowed_diff)
    /\ (vp_pc = "done" =>
           /\ plot_result.final_peaks =
                  {p \in peaks_up \cup peaks_dn : Abs(p - spot_idx) <= max_offset_bins}
           /\ (plot_result.final_peaks = peaks_up \cup peaks_dn =>
                  SideDifference(Above(plot_result.final_peaks),
                                 Below(plot_result.final_peaks)) <= max_allowed_diff))

\* C8 witness: the strength-filtered peaks were more than 10 apart by side, no rescoring took
\* place, and the balance cut the larger side down to a difference of exactly 10
C8_Witness ==
    /\ vp_pc = "done"
    /\ ~need_rescore
    /\ SideDifference(Above(filtered_peaks), Below(filtered_peaks)) > max_allowed_diff
    /\ SideDifference(Above(plot_result.final_peaks), Below(plot_result.final_peaks))
           = max_allowed_diff

ValueAreaStarted == vp_pc \in {"value_area", "display_window", "done"}

\* the range low_idx..high_idx contains the POC bin and current_vol is the volume
\* inside it; at the return VAL and VAH are its bounds and the target is reached
C9_ValueAreaAroundPOC ==
    /\ (ValueAreaStarted =>
           /\ 0 <= low_idx
           /\ low_idx <= poc_idx
           /\ poc_idx <= high_idx
           /\ high_idx <= NumBins(profile_vol) - 1
           /\ \A j \in DOMAIN profile_vol : profile_vol[j] <= profile_vol[poc_idx]
           /\ current_vol = SumVol(profile_vol, low_idx, high_idx))
    /\ (vp_pc = "done" =>
           /\ plot_result.val_price = profile_price(low_idx)
           /\ plot_result.vah_price = profile_price(high_idx)
           /\ plot_result.val_price <= profile_price(poc_idx)
           /\ profile_price(poc_idx) <= plot_result.vah_price
           /\ current_vol >= total_vol
           /\ total_vol = SumVol(profile_vol, 0, NumBins(profile_vol) - 1))

\* a step of the loop adds one bin, on the side of the larger neighbouring volume,
\* and only while the volume inside is below the target
C9_GrowsTowardLargerNeighbour ==
    (vp_pc = "value_area" /\ <<low_idx, high_idx>>' # <<low_idx, high_idx>>) =>
        LET n == NumBins(profile_vol)
            vol_below == IF low_idx > 0 THEN profile_vol[low_idx - 1] ELSE 0
            vol_above == IF high_idx < n - 1 THEN profile_vol[high_idx + 1] ELSE 0
        IN  /\ current_vol < total_vol
            /\ \/ /\ low_idx' = low_idx - 1
                  /\ high_idx' = high_idx
                  /\ vol_below >= vol_above
               \/ /\ high_idx' = high_idx + 1
                  /\ low_idx' = low_idx
                  /\ vol_above >= vol_below

\* C9: the value area is a contiguous bin range low_idx..high_idx that contains
\* the POC bin (a bin of maximum volume), so VAL <= POC price <= VAH; it holds the
\* target (the whole of total_vol) when the loop ends; each step of the loop adds
\* exactly one bin, on the side whose neighbouring bin has the larger volume, and
\* a step is only taken while the volume inside is below the target.
C9_ValueAreaGrownGreedily ==
    [](C9_ValueAreaAroundPOC) /\ [][C9_GrowsTowardLargerNeighbour]_vars

\* C9 witness: the value area grew on both sides of the POC and stopped before it covered
\* the whole histogram
C9_Witness ==
    /\ vp_pc = "done"
    /\ low_idx < poc_idx
    /\ poc_idx < high_idx
    /\ (low_idx > 0 \/ high_idx < NumBins(profile_vol) - 1)

\* C10 as stated: the gc_reference passed to plot_volume_profile determines the
\* bin size and the scroll range of a symbol other than GC: two calls on the same
\* data with different gc_reference values differ in bin_size or in scroll_range.
C10_GCReferenceDrivesBinsAndRange ==
    (/\ vp_pc = "done"
     /\ first_call.result.returned
     /\ name # "GC"
     /\ first_call.gc_reference # gc_reference)
        => \/ plot_result.bin_size # first_call.result.bin_size
           \/ plot_result.scroll_range # first_call.result.scroll_range

----------------------------------------------------------------------------
(***************************************************************************)
(* Part III: process_ticker, src/VP/VP _backup_12Dec.py                    *)
(*                                                                         *)
(* A date is a number of days after start_date; a timestamp is a number of *)
(* minutes after start_date 00:00 UTC.  A DataFrame is represented by its  *)
(* index, a sequence of timestamps: the columns play no part in the day    *)
(* selection.                                                              *)
(***************************************************************************)

BATCH_DAYS == 7

(* Bounds of the model *)
LookbackDays == 8
MaxNDays == 3
RowsPerDay == 2

\* the keys of CRYPTO_SYMBOL_MAP
CRYPTO_SYMBOLS == {"BTC-USD", "ETH-USD"}

\* CRYPTO_DISPLAY_NAMES.get(ticker_symbol, ticker_symbol.split('=')[0])
DisplayName(symbol) ==
    CASE symbol = "BTC-USD" -> "BTCUSD"
      [] symbol = "ETH-USD" -> "ETHUSD"
      [] symbol = "GC=F" -> "GC"
      [] symbol = "SI=F" -> "SI"
      [] OTHER -> symbol

\* index.date and index.weekday of a timestamp; pd.Timestamp(d).weekday() of a date
IndexDate(ts) == ts \div MINUTES_PER_DAY
WeekdayOfDate(d) == (start_weekday + d) % 7
WeekdayOf(ts) == WeekdayOfDate(IndexDate(ts))

\* the rows the data source holds for the days lo .. hi, in time order
RECURSIVE FeedRows(_, _)
FeedRows(lo, hi) ==
    IF lo > hi THEN <<>>
    ELSE FeedRows(lo, hi - 1)
         \o (IF hi \in feed
                THEN [m \in 1..RowsPerDay |-> hi * MINUTES_PER_DAY + m]
                ELSE <<>>)

\* fetch_1m_batch(ticker, start, end): the rows from `start` up to `end`
fetch_1m_batch(start, end) ==
    FeedRows(start, IF inclusive_end THEN end ELSE end - 1)

\* sort_index(): ascending, equal timestamps kept
RECURSIVE SortAscending(_)
SortAscending(seq) ==
    IF seq = <<>> THEN <<>>
    ELSE LET n == Len(seq)
             last == seq[n]
             front == SortAscending(SubSeq(seq, 1, n - 1))
         IN  SelectSeq(front, LAMBDA x : x <= last) \o <<last>>
             \o SelectSeq(front, LAMBDA x : x > last)

\* seq[~seq.duplicated()]: every occurrence after the first is dropped
RECURSIVE DropDuplicated(_)
DropDuplicated(seq) ==
    IF seq = <<>> THEN <<>>
    ELSE LET n == Len(seq)
             front == SubSeq(seq, 1, n - 1)
         IN  IF seq[n] \in SeqToSet(front)
                THEN DropDuplicated(front)
                ELSE Append(DropDuplicated(front), seq[n])

\* sorted(set_of_dates)
RECURSIVE SortedSet(_)
SortedSet(dates) ==
    IF dates = {} THEN <<>>
    ELSE LET latest == CHOOSE d \in dates : \A e \in dates : e <= d
         IN  Append(SortedSet(dates \ {latest}), latest)

\* sorted(pd.Series(index.date).unique())
SortedDates(seq) == SortedSet({IndexDate(seq[i]) : i \in DOMAIN seq})

FirstN(lst, n) == SubSeq(lst, 1, n)

\* lst[-n:]
LastN(lst, n) ==
    IF n = 0 \/ n >= Len(lst) THEN lst
    ELSE SubSeq(lst, Len(lst) - n + 1, Len(lst))

\* [d for d in lst if keep(d)]
WeekdaysOnly(lst) == SelectSeq(lst, LAMBDA d : WeekdayOfDate(d) < 5)

otherThanPt == <<pipeVars, genVars, tgVars, schedVars, vpVars, m2Vars, appVars, otmVars>>

ptInput == <<ticker_symbol, N_DAYS, start_weekday, feed, inclusive_end>>

\* while current < end_date: one batch of at most 7 days
FetchBatch ==
    /\ pt_pc = "fetch"
    /\ ticker_symbol \notin CRYPTO_SYMBOLS
    /\ pt_current < LookbackDays
    /\ LET batch_end == IF pt_current + BATCH_DAYS < LookbackDays
                           THEN pt_current + BATCH_DAYS ELSE LookbackDays
           batch == fetch_1m_batch(pt_current, batch_end)
       IN  /\ all_data' = IF batch # <<>> THEN all_data \o batch ELSE all_data
           /\ pt_current' = batch_end
    /\ UNCHANGED <<pt_pc, ptInput, selected_trading_days, pt_result>>
    /\ UNCHANGED otherThanPt

\* all_data = fetch_crypto_1m(ticker_symbol, start_date, end_date): the klines
\* from start_date to the end of end_date
FetchCrypto ==
    /\ pt_pc = "fetch"
    /\ ticker_symbol \in CRYPTO_SYMBOLS
    /\ all_data' = FeedRows(0, LookbackDays)
    /\ pt_pc' = "fetched"
    /\ UNCHANGED <<ptInput, pt_current, selected_trading_days, pt_result>>
    /\ UNCHANGED otherThanPt

FetchLoopEnd ==
    /\ pt_pc = "fetch"
    /\ ticker_symbol \notin CRYPTO_SYMBOLS
    /\ pt_current >= LookbackDays
    /\ pt_pc' = "fetched"
    /\ UNCHANGED <<ptInput, pt_current, all_data, selected_trading_days, pt_result>>
    /\ UNCHANGED otherThanPt

\* if all_data is None or all_data.empty: return None
ReturnNoData ==
    /\ pt_pc = "fetched"
    /\ all_data = <<>>
    /\ pt_pc' = "done"
    /\ pt_result' = [PT_NOT_RETURNED EXCEPT !.returned = "None"]
    /\ UNCHANGED <<ptInput, pt_current, all_data, selected_trading_days>>
    /\ UNCHANGED otherThanPt

\* all_data.sort_index()
SortIndex ==
    /\ pt_pc = "fetched"
    /\ all_data # <<>>
    /\ all_data' = SortAscending(all_data)
    /\ pt_pc' = "sorted"
    /\ UNCHANGED <<ptInput, pt_current, selected_trading_days, pt_result>>
    /\ UNCHANGED otherThanPt

\* drop the duplicated timestamps and, for a non-crypto symbol, the Saturday rows
CleanData ==
    /\ pt_pc = "sorted"
    /\ LET unique == DropDuplicated(all_data)
       IN  all_data' = IF ticker_symbol \notin CRYPTO_SYMBOLS
                          THEN SelectSeq(unique, LAMBDA ts : WeekdayOf(ts) # 5)
                          ELSE unique
    /\ pt_pc' = "select"
    /\ UNCHANGED <<ptInput, pt_current, selected_trading_days, pt_result>>
    /\ UNCHANGED otherThanPt

\* the day selection and the final mask
SelectDays ==
    /\ pt_pc = "select"
    /\ LET is_crypto == ticker_symbol \in CRYPTO_SYMBOLS
           all_dates == SortedDates(all_data)
           all_trading_dates == IF is_crypto THEN all_dates ELSE WeekdaysOnly(all_dates)
           selected == IF Len(all_trading_dates) <= N_DAYS
                          THEN all_trading_dates
                          ELSE LastN(all_trading_dates, N_DAYS)
       IN  /\ selected_trading_days' = selected
           /\ IF selected = <<>>
                 THEN pt_result' = [PT_NOT_RETURNED EXCEPT !.returned = "None"]
                 ELSE LET natural_start == CHOOSE d \in SeqToSet(selected) :
                                              \A e \in SeqToSet(selected) : d <= e
                          natural_end == CHOOSE d \in SeqToSet(selected) :
                                            \A e \in SeqToSet(selected) : d >= e
                          sundays_in_range ==
                              SelectSeq(all_dates,
                                        LAMBDA d : /\ WeekdayOfDate(d) = 6
                                                   /\ natural_start <= d
                                                   /\ d <= natural_end)
                          selected_dates_set ==
                              IF is_crypto THEN SeqToSet(selected)
                              ELSE SeqToSet(selected) \cup SeqToSet(sundays_in_range)
                          data_20d ==
                              SelectSeq(all_data,
                                        LAMBDA ts : IndexDate(ts) \in selected_dates_set)
                      IN  pt_result' =
                              IF data_20d = <<>>
                                 THEN [PT_NOT_RETURNED EXCEPT !.returned = "None"]
                                 ELSE [returned |-> "tuple",
                                       data_20d |-> data_20d,
                                       name |-> DisplayName(ticker_symbol),
                                       data_20d_dates |-> SortedDates(data_20d)]
    /\ pt_pc' = "done"
    /\ UNCHANGED <<ptInput, pt_current, all_data>>
    /\ UNCHANGED otherThanPt

\* process_ticker(ticker_symbol, start_date, end_date, N_DAYS), as generate_dashboard
\* calls it, for one state of the data source
InitProcessTicker ==
    /\ PipeIdle
    /\ GenReset
    /\ TgIdle
    /\ SchedOff
    /\ VPIdle
    /\ M2Idle
    /\ AppIdle
    /\ OtmIdle
    /\ pt_pc = "fetch"
    /\ ticker_symbol \in {"GC=F", "BTC-USD"}
    /\ N_DAYS \in 1..MaxNDays
    /\ start_weekday \in 0..6
    /\ feed \in SUBSET (0..(LookbackDays - 1))
    /\ inclusive_end \in BOOLEAN
    /\ (ticker_symbol \in CRYPTO_SYMBOLS => ~inclusive_end)
    /\ pt_current = 0
    /\ all_data = <<>>
    /\ selected_trading_days = <<>>
    /\ pt_result = PT_NOT_RETURNED

NextProcessTicker ==
    \/ FetchBatch
    \/ FetchCrypto
    \/ FetchLoopEnd
    \/ ReturnNoData
    \/ SortIndex
    \/ CleanData
    \/ SelectDays

SpecProcessTicker == InitProcessTicker /\ [][NextProcessTicker]_vars

----------------------------------------------------------------------------
(* Properties of process_ticker *)

\* the timestamps the data source handed over, and their Monday-Friday dates
FetchedTimestamps == {d * MINUTES_PER_DAY + m : d \in feed, m \in 1..RowsPerDay}
FetchedWeekdays == {d \in feed : WeekdayOfDate(d) < 5}

\* the most recent N_DAYS Monday-Friday dates present in the fetched data
MostRecentWeekdays ==
    {d \in FetchedWeekdays : Cardinality({e \in FetchedWeekdays : e > d}) < N_DAYS}

ReturnedTimestamps == SeqToSet(pt_result.data_20d)
ReturnedWeekdays == {d \in {IndexDate(ts) : ts \in ReturnedTimestamps} : WeekdayOfDate(d) < 5}

NonCryptoReturned ==
    /\ pt_pc = "done"
    /\ ticker_symbol \notin CRYPTO_SYMBOLS
    /\ pt_result.returned = "tuple"

\* C11: for a non-crypto symbol the returned rows are those of at most N_DAYS
\* Monday-Friday dates, the most recent ones of the fetched data, plus the rows of
\* the Sundays between the earliest and the latest of these dates; no row is on a
\* Saturday and no timestamp occurs twice.
C11_SelectedDays ==
    NonCryptoReturned =>
        /\ Cardinality(ReturnedWeekdays) <= N_DAYS
        /\ ReturnedWeekdays = MostRecentWeekdays
        /\ ReturnedTimestamps =
               {ts \in FetchedTimestamps :
                   \/ IndexDate(ts) \in MostRecentWeekdays
                   \/ /\ WeekdayOf(ts) = 6
                      /\ \E a \in MostRecentWeekdays : a <= IndexDate(ts)
                      /\ \E b \in MostRecentWeekdays : IndexDate(ts) <= b}
        /\ \A ts \in ReturnedTimestamps : WeekdayOf(ts) # 5
        /\ Len(pt_result.data_20d) = Cardinality(ReturnedTimestamps)

\* C11 witness: a call that had to leave out an older trading day, a Saturday row
\* and a doubled timestamp, and that kept a Sunday row
C11_Witness ==
    /\ NonCryptoReturned
    /\ Cardinality(FetchedWeekdays) > N_DAYS
    /\ \E d \in feed : WeekdayOfDate(d) = 5
    /\ \E ts \in ReturnedTimestamps : WeekdayOf(ts) = 6
    /\ inclusive_end
    /\ BATCH_DAYS \in feed
    /\ WeekdayOfDate(BATCH_DAYS) < 5

----------------------------------------------------------------------------
(* More properties of plot_volume_profile: the display window and the local  *)
(* maxima                                                                    *)

\* the bin whose centre is `price`: the inverse of profile_price
BinOfPrice(price) == (price - 2) \div 4

Returned == vp_pc = "done" /\ plot_result.returned

ScrollLow == BinOfPrice(plot_result.scroll_range.lower)
ScrollHigh == BinOfPrice(plot_result.scroll_range.upper)
WindowLow == BinOfPrice(plot_result.initial_range.lower)
WindowHigh == BinOfPrice(plot_result.initial_range.upper)
SpotBin == ArgMinDistance(profile_vol, current_price)

\* C12: the scroll range reaches at most 450 bins below and above the spot bin and
\* holds it; the initial window is min(100, allowed bins) consecutive bins inside
\* the scroll range, holds the spot bin, and 0 <= initial_offset <= max_offset.
C12_ScrollRangeAndWindow ==
    Returned =>
        /\ ScrollLow <= SpotBin /\ SpotBin <= ScrollHigh
        /\ SpotBin - ScrollLow <= 450
        /\ ScrollHigh - SpotBin <= 450
        /\ plot_result.display_bin_count = ScrollHigh - ScrollLow + 1
        /\ plot_result.window_bins = Min(100, plot_result.display_bin_count)
        /\ WindowHigh - WindowLow + 1 = plot_result.window_bins
        /\ ScrollLow <= WindowLow /\ WindowHigh <= ScrollHigh
        /\ WindowLow <= SpotBin /\ SpotBin <= WindowHigh
        /\ 0 <= plot_result.initial_offset
        /\ plot_result.initial_offset <= plot_result.max_offset
        /\ profile_price(ScrollLow) = plot_result.scroll_range.lower
        /\ profile_price(WindowLow) = plot_result.initial_range.lower

\* C12 witness: a histogram with more bins than the scroll range can hold on both
\* sides of the spot
C12_Witness ==
    /\ Returned
    /\ ScrollLow > 0
    /\ ScrollHigh < NumBins(profile_vol) - 1
    /\ plot_result.window_bins = 100
    /\ plot_result.initial_offset > 0
    /\ plot_result.initial_offset < plot_result.max_offset

\* a visible window of 100 bins that was shifted back from the top of the scroll range
C12_WitnessShifted ==
    /\ Returned
    /\ plot_result.window_bins = 100
    /\ plot_result.display_bin_count > 100
    /\ WindowHigh = ScrollHigh
    /\ SpotBin - WindowLow > 50


\* find_local_maxima has returned
LocalMaximaFound == "find_local_maxima" \in SeqToSet(stages)

\* bin i is an interior bin whose two neighbours have the same volume as it has
InsideFlatRun(i) ==
    /\ 0 < i /\ i < NumBins(profile_vol) - 1
    /\ profile_vol[i - 1] = profile_vol[i]
    /\ profile_vol[i + 1] = profile_vol[i]

\* C18: the candidates are exactly the interior bins i (0 < i < n-1) whose volume
\* is greater than or equal to the volume of both neighbours: never the first or
\* the last bin, every bin inside a flat run (a run of zero-volume bins included),
\* and none when the histogram has fewer than 3 bins.
C18_LocalMaxima ==
    LocalMaximaFound =>
        LET n == NumBins(profile_vol)
        IN  /\ \A i \in 0..(n - 1) :
                  i \in candidate_peaks <=>
                      /\ 0 < i /\ i < n - 1
                      /\ profile_vol[i] >= profile_vol[i - 1]
                      /\ profile_vol[i] >= profile_vol[i + 1]
            /\ candidate_peaks \subseteq 0..(n - 1)
            /\ 0 \notin candidate_peaks
            /\ (n - 1) \notin candidate_peaks
            /\ \A i \in 0..(n - 1) : InsideFlatRun(i) => i \in candidate_peaks
            /\ n < 3 => candidate_peaks = {}

\* C18 witness: a histogram whose candidates include a bin inside a run of
\* zero-volume bins, next to an interior bin that is no candidate and a last bin
\* that is the largest of all
C18_Witness ==
    /\ LocalMaximaFound
    /\ \E i \in candidate_peaks : InsideFlatRun(i) /\ profile_vol[i] = 0
    /\ \E j \in 1..(NumBins(profile_vol) - 2) : j \notin candidate_peaks
    /\ ArgMax(profile_vol) = NumBins(profile_vol) - 1

\* C18 witness: a histogram of two bins has no candidate
C18_WitnessShort ==
    /\ LocalMaximaFound
    /\ NumBins(profile_vol) = 2
    /\ profile_vol[0] < profile_vol[1]
    /\ candidate_peaks = {}
----------------------------------------------------------------------------
(***************************************************************************)
(* Part IV: main (mode 2) and send_to_topic_via_http,                      *)
(* src/VP/VP _backup_12Dec.py                                              *)
(*                                                                         *)
(* UTC time is counted in slots of 7200 seconds since Monday 00:00 UTC.    *)
(***************************************************************************)

HTTP_MAX_ATTEMPTS == 6
LOOP_SLEEP_SECONDS == 7200
SLOTS_PER_DAY == (24 * 3600) \div LOOP_SLEEP_SECONDS
SLOTS_PER_WEEK == 7 * SLOTS_PER_DAY

(* Bounds of the model *)
MaxPayloads == 2
MaxRunSlots == 1

\* utc_now.weekday(), Monday = 0
UtcWeekday(slot) == slot \div SLOTS_PER_DAY

IsIsoSunday(weekday) == weekday = 7

\* utc_now.weekday() == 6
IsSunday(weekday) == weekday = 6

GiveUpRaises(outcome) == IF outcome = "Exception" THEN "raised" ELSE "False"

\* the last attempt failed: `return False` in the else branch and in the handler
GiveUp(outcome) == "False"

otherThanM2 == <<pipeVars, genVars, tgVars, schedVars, vpVars, ptVars, appVars, otmVars>>

httpVars == <<http_attempt, http_posts, http_last, http_result>>

\* mode 1: generate_dashboard once
Mode1Run ==
    /\ m2_pc = "main"
    /\ mode = 1
    /\ \E outcome \in {"None", "dict", "Exception"}, n \in 1..MaxPayloads :
          /\ gd_result' = outcome
          /\ symbol_payloads' = IF outcome = "dict" THEN n ELSE 0
    /\ m2_pc' = "exit"
    /\ UNCHANGED <<mode, utc_slot, iter_weekday, slept, httpVars>>
    /\ UNCHANGED otherThanM2

\* mode 2, top of `while True`: utc_now and the Sunday test
LoopTop ==
    /\ mode = 2
    /\ m2_pc \in {"main", "loop_top"}
    /\ iter_weekday' = UtcWeekday(utc_slot)
    /\ gd_result' = "unset"
    /\ symbol_payloads' = 0
    /\ slept' = 0
    /\ http_attempt' = 0
    /\ http_posts' = 0
    /\ http_last' = "none"
    /\ http_result' = "none"
    /\ m2_pc' = IF IsSunday(iter_weekday') THEN "sleep" ELSE "generate"
    /\ UNCHANGED <<mode, utc_slot>>
    /\ UNCHANGED otherThanM2

\* result = generate_dashboard(HSI_output=HSI_output) and the two checks of result;
\* the call takes up to MaxRunSlots slots
GenerateDashboard ==
    /\ m2_pc = "generate"
    /\ \E outcome \in {"None", "dict", "Exception"}, n \in 1..MaxPayloads, took \in 0..MaxRunSlots :
          /\ gd_result' = outcome
          /\ symbol_payloads' = IF outcome = "dict" THEN n ELSE 0
          /\ utc_slot' = (utc_slot + took) % SLOTS_PER_WEEK
          /\ IF outcome = "dict" /\ symbol_payloads' > 0
                THEN /\ m2_pc' = "send"
                     /\ http_attempt' = 1
                ELSE /\ m2_pc' = "sleep"
                     /\ UNCHANGED http_attempt
    /\ UNCHANGED <<mode, iter_weekday, slept, http_posts, http_last, http_result>>
    /\ UNCHANGED otherThanM2

\* one pass of `for attempt in range(1, max_attempts + 1)`
HttpPost ==
    /\ m2_pc = "send"
    /\ http_attempt <= HTTP_MAX_ATTEMPTS
    /\ \E outcome \in {"200", "non200", "Exception"} :
          /\ http_posts' = http_posts + 1
          /\ http_last' = outcome
          /\ IF outcome = "200"
                THEN /\ http_result' = "True"
                     /\ m2_pc' = "sent"
                     /\ UNCHANGED http_attempt
                ELSE IF http_attempt < HTTP_MAX_ATTEMPTS
                        THEN /\ http_attempt' = http_attempt + 1
                             /\ UNCHANGED <<http_result, m2_pc>>
                        ELSE /\ http_result' = GiveUp(outcome)
                             /\ m2_pc' = "sent"
                             /\ UNCHANGED http_attempt
    /\ UNCHANGED <<mode, utc_slot, iter_weekday, gd_result, symbol_payloads, slept>>
    /\ UNCHANGED otherThanM2

\* `if success: ... else: ...`, or the `except Exception` of the loop body
AfterSend ==
    /\ m2_pc = "sent"
    /\ m2_pc' = "sleep"
    /\ UNCHANGED <<mode, utc_slot, iter_weekday, gd_result, symbol_payloads, slept, httpVars>>
    /\ UNCHANGED otherThanM2

\* time.sleep(7200), then the next iteration
Sleep ==
    /\ m2_pc = "sleep"
    /\ slept' = slept + LOOP_SLEEP_SECONDS
    /\ utc_slot' = (utc_slot + 1) % SLOTS_PER_WEEK
    /\ m2_pc' = "loop_top"
    /\ UNCHANGED <<mode, iter_weekday, gd_result, symbol_payloads, httpVars>>
    /\ UNCHANGED otherThanM2

InitMode2 ==
    /\ PipeIdle
    /\ GenReset
    /\ TgIdle
    /\ SchedOff
    /\ VPIdle
    /\ PtIdle
    /\ AppIdle
    /\ OtmIdle
    /\ m2_pc = "main"
    /\ mode \in {1, 2}
    /\ utc_slot \in 0..(SLOTS_PER_WEEK - 1)
    /\ iter_weekday = -1
    /\ gd_result = "unset"
    /\ symbol_payloads = 0
    /\ slept = 0
    /\ HttpIdle

NextMode2 ==
    \/ Mode1Run
    \/ LoopTop
    \/ GenerateDashboard
    \/ HttpPost
    \/ AfterSend
    \/ Sleep

SpecMode2 == InitMode2 /\ [][NextMode2]_vars

----------------------------------------------------------------------------
(* Properties of main (mode 2) and send_to_topic_via_http *)

\* C13: in mode 2 a send is attempted in an iteration only if the UTC weekday read
\* at its start is not Sunday and generate_dashboard returned a result with
\* symbol payloads; an iteration without a send posts nothing, and the next
\* iteration starts only after a sleep of 7200 seconds.
C13_SendOnlyOffSundayWithPayloads ==
    mode = 2 =>
        /\ (m2_pc \in {"send", "sent"} \/ http_posts > 0) =>
               /\ iter_weekday \in 0..5
               /\ gd_result = "dict"
               /\ symbol_payloads > 0
        /\ (iter_weekday = 6 \/ gd_result \in {"None", "Exception"} \/ symbol_payloads = 0) =>
               http_posts = 0
        /\ m2_pc = "loop_top" => slept = 7200
        /\ m2_pc \notin {"loop_top", "main"} => slept = 0

\* C13 witness: a Sunday iteration that has slept and posted nothing
C13_Witness ==
    /\ mode = 2
    /\ m2_pc = "loop_top"
    /\ iter_weekday = 6
    /\ gd_result = "unset"
    /\ http_posts = 0
    /\ slept = 7200

\* an iteration that did send, and one whose generate_dashboard gave nothing
C13_WitnessSent == mode = 2 /\ m2_pc = "loop_top" /\ http_result = "True"
C13_WitnessNoData == mode = 2 /\ m2_pc = "loop_top" /\ gd_result = "None" /\ http_posts = 0

\* C14: send_to_topic_via_http posts at most 6 times per call; it returns True at
\* the first 200 answer and posts no more; it returns False after the 6th failed
\* attempt, by status or by exception; it never raises.
C14_SendBounded ==
    /\ http_posts <= 6
    /\ http_posts = (IF http_result = "none" /\ m2_pc = "send" THEN http_attempt - 1
                     ELSE http_attempt)
    /\ http_result \in {"none", "True", "False"}
    /\ (http_result = "True" <=> http_last = "200")
    /\ http_result = "True" => http_posts \in 1..6
    /\ http_result = "False" => http_posts = 6 /\ http_last \in {"non200", "Exception"}
    /\ m2_pc = "sent" => http_result \in {"True", "False"}

\* C14 witness: five failed attempts, the sixth ends with an exception, the call
\* returned False
C14_Witness ==
    /\ m2_pc = "sent"
    /\ http_posts = 6
    /\ http_last = "Exception"
    /\ http_result = "False"

C14_WitnessRetrySuccess == m2_pc = "sent" /\ http_posts = 3 /\ http_result = "True"

----------------------------------------------------------------------------
(***************************************************************************)
(* Part V: app.py, the login gate of the locked pages                      *)
(*                                                                         *)
(* One browser session.  Streamlit runs the script from top to bottom on   *)
(* every interaction; st.session_state lives across the runs.              *)
(***************************************************************************)

locked_pages ==
    {"My Trade", "Stock DNA", "ETF Smart Money", "Insider Trading", "Short Squeeze",
     "Volatility Target", "US Option", "HK Option", "Volume Profile",
     "Intraday Volatility", "HSI CBBC Ladder"}

\* the values target_page takes: the main menu entries without a sub-menu and
\* the entries of the five sub-menus
TARGET_PAGES ==
    {"Home", "My Trade", "Legal", "Resources", "Promotion",
     "Market Risk", "Market Breadth", "Economic Calendar",
     "Earnings", "Stock DNA", "Thematic Basket", "ETF Smart Money", "Insider Trading",
     "Short Squeeze", "Volatility Target", "Industry Sector Heatmap",
     "Volume Profile", "Intraday Volatility", "HSI CBBC Ladder",
     "US Option", "HK Option", "EA Introduction", "Daily Report"}

\* st.secrets["allowed_users"]["emails"] and st.secrets["access_password"]
valid_emails == {"member@example.com"}
correct_password == "open-sesame"

\* what a visitor may type
EMAIL_INPUTS == {"", "member@example.com", "guest@example.com"}
PASSWORD_INPUTS == {"", "open-sesame", "guess"}

CredentialsAcceptedByEmail(email, password) == email \in valid_emails

\* email_input in valid_emails and password_input == correct_password
CredentialsAccepted(email, password) ==
    email \in valid_emails /\ password = correct_password

otherThanApp == <<pipeVars, genVars, tgVars, schedVars, vpVars, ptVars, m2Vars, otmVars>>

latestFileVars == <<glfc_pc, platform, folder_exists, dir_files, birthtime, changetime,
                    unreadable, pattern, glfc_result>>
sessionVars == <<authentication_status, user_email, latestFileVars>>
widgetVars == <<email_input, password_input, submit_button>>

\* an interaction starts a script run: a page is chosen in the menus; the login
\* form can only be submitted when the previous run showed it
StartRun ==
    /\ app_pc = "idle"
    /\ \E page \in TARGET_PAGES : target_page' = page
    /\ \/ /\ form_shown
          /\ submit_button' = TRUE
          /\ email_input' \in EMAIL_INPUTS
          /\ password_input' \in PASSWORD_INPUTS
       \/ /\ submit_button' = FALSE
          /\ email_input' = ""
          /\ password_input' = ""
    /\ secrets' \in {"set", "missing"}
    /\ form_shown' = FALSE
    /\ rendered' = "none"
    /\ app_pc' = "security_check"
    /\ UNCHANGED sessionVars
    /\ UNCHANGED otherThanApp

\* target_page is not in locked_pages: no login_system call
PassUnlocked ==
    /\ app_pc = "security_check"
    /\ target_page \notin locked_pages
    /\ app_pc' = "route"
    /\ UNCHANGED <<sessionVars, target_page, widgetVars, secrets, form_shown, rendered>>
    /\ UNCHANGED otherThanApp

\* login_system() returns True at once
PassAuthenticated ==
    /\ app_pc = "security_check"
    /\ target_page \in locked_pages
    /\ authentication_status = "True"
    /\ app_pc' = "route"
    /\ UNCHANGED <<sessionVars, target_page, widgetVars, secrets, form_shown, rendered>>
    /\ UNCHANGED otherThanApp

\* login_system() draws the form, nothing was submitted: return False, st.stop()
LoginFormShown ==
    /\ app_pc = "security_check"
    /\ target_page \in locked_pages
    /\ authentication_status # "True"
    /\ ~submit_button
    /\ form_shown' = TRUE
    /\ app_pc' = "idle"
    /\ UNCHANGED <<sessionVars, target_page, widgetVars, secrets, rendered>>
    /\ UNCHANGED otherThanApp

\* submit with the secrets missing: st.error, return False, st.stop()
LoginSecretsMissing ==
    /\ app_pc = "security_check"
    /\ target_page \in locked_pages
    /\ authentication_status # "True"
    /\ submit_button
    /\ secrets = "missing"
    /\ form_shown' = TRUE
    /\ app_pc' = "idle"
    /\ UNCHANGED <<sessionVars, target_page, widgetVars, secrets, rendered>>
    /\ UNCHANGED otherThanApp

\* submit, accepted: the session state is set and st.rerun() starts the script again
LoginAccepted ==
    /\ app_pc = "security_check"
    /\ target_page \in locked_pages
    /\ authentication_status # "True"
    /\ submit_button
    /\ secrets = "set"
    /\ CredentialsAccepted(email_input, password_input)
    /\ authentication_status' = "True"
    /\ user_email' = email_input
    /\ submit_button' = FALSE
    /\ form_shown' = FALSE
    /\ app_pc' = "security_check"
    /\ UNCHANGED <<latestFileVars, target_page, email_input, password_input, secrets, rendered>>
    /\ UNCHANGED otherThanApp

\* submit, refused: authentication_status = False, st.error, return False, st.stop()
LoginDenied ==
    /\ app_pc = "security_check"
    /\ target_page \in locked_pages
    /\ authentication_status # "True"
    /\ submit_button
    /\ secrets = "set"
    /\ ~CredentialsAccepted(email_input, password_input)
    /\ authentication_status' = "False"
    /\ form_shown' = TRUE
    /\ app_pc' = "idle"
    /\ UNCHANGED <<user_email, latestFileVars, target_page, widgetVars, secrets, rendered>>
    /\ UNCHANGED otherThanApp

\* content routing: the branch of target_page renders the page
RenderContent ==
    /\ app_pc = "route"
    /\ rendered' = target_page
    /\ app_pc' = "idle"
    /\ UNCHANGED <<sessionVars, target_page, widgetVars, secrets, form_shown>>
    /\ UNCHANGED otherThanApp

\* a new browser session
InitApp ==
    /\ PipeIdle
    /\ GenReset
    /\ TgIdle
    /\ SchedOff
    /\ VPIdle
    /\ PtIdle
    /\ M2Idle
    /\ OtmIdle
    /\ app_pc = "idle"
    /\ authentication_status = "unset"
    /\ user_email = "unset"
    /\ target_page = "none"
    /\ email_input = ""
    /\ password_input = ""
    /\ submit_button = FALSE
    /\ secrets = "set"
    /\ form_shown = FALSE
    /\ rendered = "none"
    /\ LatestFileIdle

NextApp ==
    \/ StartRun
    \/ PassUnlocked
    \/ PassAuthenticated
    \/ LoginFormShown
    \/ LoginSecretsMissing
    \/ LoginAccepted
    \/ LoginDenied
    \/ RenderContent

SpecApp == InitApp /\ [][NextApp]_vars

----------------------------------------------------------------------------
(* Properties of the login gate *)

LockedContentNeedsLogin ==
    (app_pc = "route" \/ rendered # "none") /\ (IF app_pc = "route" THEN target_page ELSE rendered) \in locked_pages
        => authentication_status = "True"

LoginOnlyByValidSubmit ==
    (authentication_status' = "True" /\ authentication_status # "True") =>
        /\ app_pc = "security_check"
        /\ submit_button
        /\ email_input \in {"member@example.com"}
        /\ password_input = "open-sesame"
        /\ secrets = "set"

\* C15: the content of a locked page is rendered only in a session whose
\* authentication_status is True, and authentication_status becomes True only by a
\* login submit with a whitelisted email and the configured access password.
C15_LockedPagesBehindLogin ==
    [](LockedContentNeedsLogin) /\ [][LoginOnlyByValidSubmit]_vars

\* C15 witness: a locked page rendered after a login
C15_Witness ==
    /\ rendered \in locked_pages
    /\ authentication_status = "True"
    /\ user_email = "member@example.com"

\* a refused login, and an open page rendered without any login
C15_WitnessDenied == authentication_status = "False" /\ form_shown /\ rendered = "none"
C15_WitnessOpenPage == rendered = "Home" /\ authentication_status = "unset"

----------------------------------------------------------------------------
(***************************************************************************)
(* Part VI: app.py, get_latest_file_content                                *)
(*                                                                         *)
(* A file has the time it was created and the time its inode was last      *)
(* changed (a write, chmod, rename or checkout); the second is never       *)
(* earlier than the first.  A file's content is represented by its name.   *)
(***************************************************************************)

FILE_NAMES == {"report_1.html", "report_2.html", "notes.txt"}

(* Bound of the model *)
MaxTime == 3

\* glob.glob(os.path.join(folder_path, pattern)) for the two patterns used
Glob(names, pat) ==
    CASE pat = "*.html" -> names \cap {"report_1.html", "report_2.html"}
      [] pat = "*.txt" -> names \cap {"notes.txt"}
      [] OTHER -> {}

\* os.path.getctime: the creation time on Windows, the time of the last inode
\* change on Unix
getctime(file) ==
    IF platform = "Windows" THEN birthtime[file] ELSE changetime[file]

\* the candidates of max(list_of_files, key=os.path.getctime): max returns the
\* first maximal element of the list, and glob returns the files in any order
MaxByCtime(list_of_files) ==
    {f \in list_of_files : \A g \in list_of_files : getctime(g) <= getctime(f)}

otherThanLatestFile ==
    <<pipeVars, genVars, tgVars, schedVars, vpVars, ptVars, m2Vars, otmVars,
      app_pc, authentication_status, user_email, target_page, widgetVars, secrets,
      form_shown, rendered>>

latestFileInput == <<platform, folder_exists, dir_files, birthtime, changetime,
                     unreadable, pattern>>

\* if not os.path.exists(folder_path)
ReturnDirectoryNotFound ==
    /\ glfc_pc = "call"
    /\ ~folder_exists
    /\ glfc_result' = [returned |-> TRUE, first |-> "None",
                       second |-> "Directory not found", raised |-> FALSE]
    /\ glfc_pc' = "done"
    /\ UNCHANGED latestFileInput
    /\ UNCHANGED otherThanLatestFile

\* if not list_of_files
ReturnNoFiles ==
    /\ glfc_pc = "call"
    /\ folder_exists
    /\ Glob(dir_files, pattern) = {}
    /\ glfc_result' = [returned |-> TRUE, first |-> "None",
                       second |-> "No files found", raised |-> FALSE]
    /\ glfc_pc' = "done"
    /\ UNCHANGED latestFileInput
    /\ UNCHANGED otherThanLatestFile

\* the file is read: return f.read(), os.path.basename(latest_file)
ReturnContent ==
    /\ glfc_pc = "call"
    /\ folder_exists
    /\ \E latest_file \in MaxByCtime(Glob(dir_files, pattern)) :
          /\ latest_file \notin unreadable
          /\ glfc_result' = [returned |-> TRUE, first |-> latest_file,
                             second |-> latest_file, raised |-> FALSE]
    /\ glfc_pc' = "done"
    /\ UNCHANGED latestFileInput
    /\ UNCHANGED otherThanLatestFile

\* open or read raises: except Exception as e: return None, str(e)
ReturnReadError ==
    /\ glfc_pc = "call"
    /\ folder_exists
    /\ \E latest_file \in MaxByCtime(Glob(dir_files, pattern)) :
          /\ latest_file \in unreadable
          /\ glfc_result' = [returned |-> TRUE, first |-> "None",
                             second |-> "str(e)", raised |-> FALSE]
    /\ glfc_pc' = "done"
    /\ UNCHANGED latestFileInput
    /\ UNCHANGED otherThanLatestFile

\* get_latest_file_content(path, pattern) on one state of the folder
InitLatestFile ==
    /\ PipeIdle
    /\ GenReset
    /\ TgIdle
    /\ SchedOff
    /\ VPIdle
    /\ PtIdle
    /\ M2Idle
    /\ OtmIdle
    /\ app_pc = "off"
    /\ authentication_status = "unset"
    /\ user_email = "unset"
    /\ target_page = "none"
    /\ email_input = ""
    /\ password_input = ""
    /\ submit_button = FALSE
    /\ secrets = "set"
    /\ form_shown = FALSE
    /\ rendered = "none"
    /\ glfc_pc = "call"
    /\ platform \in {"Windows", "Unix"}
    /\ folder_exists \in BOOLEAN
    /\ dir_files \in SUBSET FILE_NAMES
    /\ (~folder_exists => dir_files = {})
    /\ birthtime \in [dir_files -> 1..MaxTime]
    /\ changetime \in [dir_files -> 1..MaxTime]
    /\ \A f \in dir_files : birthtime[f] <= changetime[f]
    /\ unreadable \in SUBSET dir_files
    /\ pattern \in {"*.html", "*.txt"}
    /\ glfc_result = GLFC_NOT_RETURNED

NextLatestFile ==
    \/ ReturnDirectoryNotFound
    \/ ReturnNoFiles
    \/ ReturnContent
    \/ ReturnReadError

SpecLatestFile == InitLatestFile /\ [][NextLatestFile]_vars

----------------------------------------------------------------------------
(* Properties of get_latest_file_content *)

MatchingFiles == Glob(dir_files, pattern)

NewestCreated ==
    {f \in MatchingFiles : \A g \in MatchingFiles : birthtime[g] <= birthtime[f]}

\* C16: the call returns the content and the base name of the matching file with
\* the greatest creation time; it returns (None, message) without raising when the
\* folder is missing, when no file matches, or when reading the chosen file fails.
C16_LatestByCreationTime ==
    glfc_pc = "done" =>
        /\ ~glfc_result.raised
        /\ (~folder_exists \/ MatchingFiles = {}) => glfc_result.first = "None"
        /\ glfc_result.first # "None" =>
               /\ glfc_result.first \in NewestCreated
               /\ glfc_result.second = glfc_result.first
        /\ (folder_exists /\ MatchingFiles # {} /\ glfc_result.first = "None") =>
               \E f \in NewestCreated : f \in unreadable

\* what the code does instead: the file is the newest by os.path.getctime
LatestByGetctime ==
    glfc_pc = "done" =>
        /\ ~glfc_result.raised
        /\ (~folder_exists \/ MatchingFiles = {}) => glfc_result.first = "None"
        /\ glfc_result.first # "None" =>
               /\ glfc_result.first \in MaxByCtime(MatchingFiles)
               /\ glfc_result.first \notin unreadable
               /\ glfc_result.second = glfc_result.first
        /\ (folder_exists /\ MatchingFiles # {} /\ glfc_result.first = "None") =>
               \E f \in MaxByCtime(MatchingFiles) : f \in unreadable

\* on Unix an older report whose inode changed last is returned
StaleReportReturned ==
    /\ glfc_pc = "done"
    /\ platform = "Unix"
    /\ glfc_result.first = "report_1.html"
    /\ "report_2.html" \in dir_files
    /\ birthtime["report_1.html"] < birthtime["report_2.html"]

----------------------------------------------------------------------------
(***************************************************************************)
(* Part VII: src/main_auto/OtmPremium.py, compute_metrics_and_qc           *)
(*                                                                         *)
(* Every column of df is computed row by row and the filter looks at one   *)
(* row at a time, so the data frame is represented by one row.  A cell is  *)
(* a number or NaN; date_diff is (expiration_dt - trade_date_dt).dt.days   *)
(* of the row, NaN when either date does not parse.  The columns volume,   *)
(* open_interest, last_price, strike, ul_price and contract_type are       *)
(* always there; the set columns holds which of the optional ones are.     *)
(***************************************************************************)

TENOR == 35
DEFAULT_OPT_MULTIPLIER == 100
DEFAULT_PREMIUM_THRESHOLD == 300000

OPTIONAL_COLUMNS == {"days_to_expiration", "option_premium", "premium_threshold", "moneyness"}
MONEYNESS_VALUES == {"OTM", "otm", "ITM", "UNKNOWN"}
UNKNOWN_SPELLINGS == {"UNKNOWN", "UNKONWN", "UNK", "NA", "NAN", "", "NONE"}

(* Bounds of the model *)
MaxVolume == 3
MaxOpenInterest == 1

\* a > b, a <= b and a * b of two cells: a comparison with NaN is False, a product
\* with NaN is NaN
Gt(a, b) == ~a.nan /\ ~b.nan /\ a.v > b.v
Le(a, b) == ~a.nan /\ ~b.nan /\ a.v <= b.v
Mul(a, b) == IF a.nan \/ b.nan THEN NaN ELSE Num(a.v * b.v)

\* Series.clip(lower=0)
ClipLower0(a) == IF ~a.nan /\ a.v < 0 THEN Num(0) ELSE a

\* str.upper() and str.lower() on the values that occur
Upper(s) == IF s = "otm" THEN "OTM" ELSE s
Lower(s) == IF s = "PUT" THEN "put" ELSE s

\* df["dte"]: days_to_expiration where the cell has a value, otherwise the date
\* difference, not less than 0
dte_calc(cols, r) ==
    LET from_column == IF "days_to_expiration" \in cols THEN r.days_to_expiration ELSE NaN
    IN  IF from_column.nan THEN r.date_diff ELSE from_column

\* df[dte_col], dte_col = "days_to_expiration" if that column exists else "dte"
DteCol(cols, r, computed) ==
    IF "days_to_expiration" \in cols THEN r.days_to_expiration ELSE computed

\* df.loc[infer_otm, "moneyness"] = "OTM"
InferredMoneyness(cols, r) ==
    IF "moneyness" \in cols
       THEN LET is_unknown == Upper(r.moneyness) \in UNKNOWN_SPELLINGS
                put_otm == Lower(r.contract_type) = "put" /\ Gt(r.ul_price, r.strike)
                call_otm == Lower(r.contract_type) = "call" /\ Gt(r.strike, r.ul_price)
            IN  IF is_unknown /\ (put_otm \/ call_otm) THEN "OTM" ELSE r.moneyness
       ELSE ""

\* is_otm
is_otm(cols, d) == "moneyness" \in cols /\ Upper(d.moneyness) = "OTM"

otherThanOtm == <<pipeVars, genVars, tgVars, schedVars, vpVars, ptVars, m2Vars, appVars>>

\* the DTE block
ComputeDte ==
    /\ otm_pc = "call"
    /\ df' = [df EXCEPT !.dte = ClipLower0(dte_calc(columns, row))]
    /\ otm_pc' = "dte"
    /\ UNCHANGED <<columns, row, df_filtered>>
    /\ UNCHANGED otherThanOtm

\* opt_multiplier, option_premium, the moneyness of UNKNOWN rows, premium_threshold
ComputeInputs ==
    /\ otm_pc = "dte"
    /\ df' = [df EXCEPT
                !.option_premium =
                    IF "option_premium" \in columns
                       THEN row.option_premium
                       ELSE Mul(Mul(row.last_price, row.volume), Num(DEFAULT_OPT_MULTIPLIER)),
                !.moneyness = InferredMoneyness(columns, row),
                !.premium_threshold =
                    IF "premium_threshold" \in columns
                       THEN row.premium_threshold
                       ELSE Num(DEFAULT_PREMIUM_THRESHOLD)]
    /\ otm_pc' = "inputs"
    /\ UNCHANGED <<columns, row, df_filtered>>
    /\ UNCHANGED otherThanOtm

\* df["abnormal_volume"]
FlagAbnormalVolume ==
    /\ otm_pc = "inputs"
    /\ df' = [df EXCEPT
                !.abnormal_volume =
                    /\ Gt(row.volume, Mul(row.open_interest, Num(2)))
                    /\ Gt(df.option_premium, df.premium_threshold)
                    /\ Le(DteCol(columns, row, df.dte), Num(TENOR))
                    /\ is_otm(columns, df)]
    /\ otm_pc' = "flagged"
    /\ UNCHANGED <<columns, row, df_filtered>>
    /\ UNCHANGED otherThanOtm

\* df_filtered = df.loc[(df["abnormal_volume"] == True) & has_valid_oi]
FilterRows ==
    /\ otm_pc = "flagged"
    /\ LET has_valid_oi == Gt(row.open_interest, Num(0))
       IN  df_filtered' = IF df.abnormal_volume /\ has_valid_oi THEN <<row>> ELSE <<>>
    /\ otm_pc' = "done"
    /\ UNCHANGED <<columns, row, df>>
    /\ UNCHANGED otherThanOtm

Cells(lo, hi) == {NaN} \cup {Num(x) : x \in lo..hi}

\* compute_metrics_and_qc on a CSV with one row
InitOtm ==
    /\ PipeIdle
    /\ GenReset
    /\ TgIdle
    /\ SchedOff
    /\ VPIdle
    /\ PtIdle
    /\ M2Idle
    /\ AppIdle
    /\ otm_pc = "call"
    /\ columns \in SUBSET OPTIONAL_COLUMNS
    /\ \E volume_cell \in Cells(0, MaxVolume), open_interest_cell \in Cells(0, MaxOpenInterest),
          date_diff_cell \in {NaN, Num(-2), Num(10), Num(TENOR + 5)},
          strike_cell \in {Num(1), Num(2), Num(3)} :
       \E days_cell \in IF "days_to_expiration" \in columns
                           THEN {NaN, Num(-1), Num(TENOR), Num(TENOR + 1)} ELSE {NaN},
          premium_cell \in IF "option_premium" \in columns
                              THEN {NaN, Num(DEFAULT_PREMIUM_THRESHOLD),
                                    Num(DEFAULT_PREMIUM_THRESHOLD + 1)}
                              ELSE {NaN},
          last_price_cell \in IF "option_premium" \in columns
                                 THEN {Num(1)} ELSE {Num(1), Num(1001)},
          threshold_cell \in IF "premium_threshold" \in columns
                                THEN {Num(DEFAULT_PREMIUM_THRESHOLD + 1)} ELSE {NaN},
          moneyness_cell \in IF "moneyness" \in columns THEN MONEYNESS_VALUES ELSE {""},
          contract_type_cell \in {"call", "PUT"} :
            row = [volume |-> volume_cell, open_interest |-> open_interest_cell,
                   last_price |-> last_price_cell, option_premium |-> premium_cell,
                   premium_threshold |-> threshold_cell,
                   days_to_expiration |-> days_cell, date_diff |-> date_diff_cell,
                   moneyness |-> moneyness_cell, contract_type |-> contract_type_cell,
                   strike |-> strike_cell, ul_price |-> Num(2)]
    /\ df = DF_NOT_COMPUTED
    /\ df_filtered = <<>>

NextOtm ==
    \/ ComputeDte
    \/ ComputeInputs
    \/ FlagAbnormalVolume
    \/ FilterRows

SpecOtm == InitOtm /\ [][NextOtm]_vars

----------------------------------------------------------------------------
(* Properties of compute_metrics_and_qc *)

RowKept == df_filtered # <<>>

\* the row's days_to_expiration when that value is available, otherwise the
\* calendar-day difference expiration - trade_date, floored at 0
DaysAvailable == "days_to_expiration" \in columns /\ ~row.days_to_expiration.nan

RowDte ==
    LET days == IF DaysAvailable THEN row.days_to_expiration ELSE row.date_diff
    IN  IF ~days.nan /\ days.v < 0 THEN Num(0) ELSE days

\* volume > 2 x open_interest, option_premium > premium_threshold, moneyness is OTM
\* and open_interest > 0
OtherConditions ==
    /\ Gt(row.volume, Mul(Num(2), row.open_interest))
    /\ Gt(df.option_premium, df.premium_threshold)
    /\ Upper(df.moneyness) = "OTM"
    /\ Gt(row.open_interest, Num(0))

\* C17: a row is in the result if and only if volume > 2 x open_interest,
\* option_premium > premium_threshold, dte <= 35, moneyness is OTM and
\* open_interest > 0, dte being days_to_expiration when the row has that value and
\* otherwise expiration - trade_date in days, floored at 0.
C17_FilterRule ==
    otm_pc = "done" => (RowKept <=> (OtherConditions /\ Le(RowDte, Num(TENOR))))

\* the dte column of the result is the dte of the claim
DteColumnIsRowDte == otm_pc \notin {"off", "call"} => df.dte = RowDte

\* what the code does instead: the tenor test reads the raw days_to_expiration
\* column whenever the file has one, so a row whose cell is empty fails it
FilterByDteColumn ==
    otm_pc = "done" =>
        (RowKept <=> (OtherConditions /\ Le(DteCol(columns, row, RowDte), Num(TENOR))))

\* the rule of the claim holds for every row whose days_to_expiration has a value
\* and for every file without that column
FilterRuleWhenDaysPresent ==
    (otm_pc = "done" /\ (DaysAvailable \/ "days_to_expiration" \notin columns)) =>
        (RowKept <=> (OtherConditions /\ Le(RowDte, Num(TENOR))))

\* a row without a days_to_expiration value that expires 10 days after the trade
\* date and passes every other test is dropped
NearExpiryRowDropped ==
    /\ otm_pc = "done"
    /\ "days_to_expiration" \in columns
    /\ row.days_to_expiration.nan
    /\ row.date_diff = Num(10)
    /\ df.dte = Num(10)
    /\ OtherConditions
    /\ ~RowKept

\* a row is kept
SomeRowKept == otm_pc = "done" /\ RowKept

====
